---- MODULE Spec2Model ----
(***************************************************************************)
(* Model of the register description validator                             *)
(* (src/src/logic/validation.rs and src/src/logic/validation/*.rs).        *)
(*                                                                         *)
(* Conventions                                                             *)
(*   - Rust `&str`/`String` values are tuples of one-character strings,    *)
(*     so that parsing (split, digit parsing) and formatting are computed. *)
(*     Table keys are `&'static str` constants and are TLA+ strings.       *)
(*   - Option<T>:  None == <<>>,  Some(x) == <<x>>.                        *)
(*   - Result<T,E>: a record [ok, val, error].                             *)
(*   - `&mut` arguments are threaded: an operator that mutates its         *)
(*     argument returns the new value next to its result.                  *)
(***************************************************************************)
EXTENDS Integers, Sequences, FiniteSets, TLC

(***************************************************************************)
(* Bounds of the explored input space.                                     *)
(***************************************************************************)
MaxRegisters == 2
MaxFunctions == 3
MaxEnumValues == 4

(***************************************************************************)
(* Option and Result.                                                      *)
(***************************************************************************)
None == <<>>

Some(x) == <<x>>

is_some(o) == Len(o) = 1

\* The element of a set of one element: `the({f(x) : x \in {e}})` is f(e)
\* with e evaluated once.
the(S) == CHOOSE x \in S : TRUE

is_none(o) == Len(o) = 0

unwrap(o) == o[1]

Msg(id, args) == [id |-> id, args |-> args]

NoMessage == Msg("", <<>>)

Ok(x) == [ok |-> TRUE, val |-> x, error |-> NoMessage]

Err(e) == [ok |-> FALSE, val |-> <<>>, error |-> e]

ErrUnit == Err(NoMessage)

(***************************************************************************)
(* toml::Value.  Every value carries one field per payload type so that    *)
(* values of different kinds stay comparable.                              *)
(***************************************************************************)
TomlValue(kind, s, i, b, a, t) == [kind |-> kind, s |-> s, i |-> i, b |-> b, a |-> a, t |-> t]

String(s) == TomlValue("String", s, 0, FALSE, <<>>, <<>>)

Integer(i) == TomlValue("Integer", <<>>, i, FALSE, <<>>, <<>>)

Boolean(b) == TomlValue("Boolean", <<>>, 0, b, <<>>, <<>>)

Array(a) == TomlValue("Array", <<>>, 0, FALSE, a, <<>>)

Table(t) == TomlValue("Table", <<>>, 0, FALSE, <<>>, t)

EmptyTable == <<>>

(***************************************************************************)
(* Keys (validation.rs:72-74, register.rs:453-497,                         *)
(* register_description.rs:20-38).                                         *)
(***************************************************************************)
REGISTER_DESCRIPTION_KEY == "register_description"

REGISTER_KEY == "register"

POSSIBLE_ROOT_KEYS == <<REGISTER_DESCRIPTION_KEY, REGISTER_KEY>>

NAME_KEY == "name"

DESCRIPTION_KEY == "description"

BIT_KEY == "bit"

ACCESS_KEY == "access"

ABSOLUTE_ADDRESS_KEY == "absolute_address"

RELATIVE_ADDRESS_KEY == "relative_address"

FUNCTIONS_KEY == "bit_fields"

RESERVED_KEY == "reserved"

VALUES_KEY == "values"

VALUE_KEY == "value"

ENUMS_KEY == "enum"

INDEX_KEY == "index"

SIZE_IN_BITS_KEY == "size"

VERSION_KEY == "version"

DEFAULT_REGISTER_SIZE_KEY == "default_register_size"

DEFAULT_REGISTER_ACCESS_KEY == "default_register_access"

EXTENSION_KEY == "extension"

INDEX_SIZE_KEY == "index_size"

ADDRESS_SIZE_KEY == "address_size"

POSSIBLE_KEYS_REGISTER == <<NAME_KEY, DESCRIPTION_KEY, ACCESS_KEY, ABSOLUTE_ADDRESS_KEY, RELATIVE_ADDRESS_KEY, FUNCTIONS_KEY, ENUMS_KEY, SIZE_IN_BITS_KEY, INDEX_KEY>>

POSSIBLE_KEYS_FUNCTION == <<BIT_KEY, NAME_KEY, DESCRIPTION_KEY, RESERVED_KEY>>

POSSIBLE_KEYS_ENUM == <<NAME_KEY, BIT_KEY, DESCRIPTION_KEY, VALUES_KEY>>

POSSIBLE_KEYS_ENUM_VALUE == <<VALUE_KEY, NAME_KEY, DESCRIPTION_KEY>>

POSSIBLE_KEYS == <<VERSION_KEY, NAME_KEY, DESCRIPTION_KEY, DEFAULT_REGISTER_SIZE_KEY, EXTENSION_KEY, DEFAULT_REGISTER_ACCESS_KEY, INDEX_SIZE_KEY, ADDRESS_SIZE_KEY>>

\* A key no table type knows, and the group names used in documents.
UnknownKeyName == "foo"

\* Iteration order of a toml table (a BTreeMap): the keys in byte order.
KeyOrder == <<"a", "absolute_address", "access", "address_size", "b", "bit", "bit_fields", "default_register_access", "default_register_size", "description", "enum", "extension", "foo", "index", "index_size", "name", "register", "register_description", "relative_address", "reserved", "size", "value", "values", "version">>

table_iter(table) == SelectSeq(KeyOrder, LAMBDA k : k \in DOMAIN table)

contains(seq, x) == \E n \in 1..Len(seq) : seq[n] = x

(***************************************************************************)
(* ParserContextAndErrors, ErrorContext and TableValidator                 *)
(* (validation.rs:155-423).  A TableValidator value holds the table, the   *)
(* fields of its ErrorContext and the ParserContextAndErrors it borrows.   *)
(***************************************************************************)
ParserContextAndErrors_default == [context_stack |-> <<>>, errors |-> <<>>]

TableValidator_new(table, ct, data) == [table |-> table, ct |-> ct, current_key |-> "current key is uninitialized", context_stack_push_count |-> 0, data |-> data]

\* pop_n with the pops left out: the guard never releases its breadcrumbs.
pop_n_keeps_context(stack, n) == stack

RECURSIVE pop_n(_, _)
pop_n(stack, n) == IF n = 0 \/ Len(stack) = 0 THEN stack ELSE pop_n(SubSeq(stack, 1, Len(stack) - 1), n - 1)

\* impl Drop for ErrorContext: gives back the borrowed data.
drop(v) == [v.data EXCEPT !.context_stack = pop_n(@, v.context_stack_push_count)]

\* push_context_identifier without the count of the pushes.
push_context_identifier_uncounted(v, text) == [v EXCEPT !.data.context_stack = Append(@, text)]

push_context_identifier(v, text) == [v EXCEPT !.context_stack_push_count = @ + 1, !.data.context_stack = Append(@, text)]

change_current_key(v, new) == [v EXCEPT !.current_key = new]

RECURSIVE context_stack_join(_)
context_stack_join(stack) == IF stack = <<>> THEN <<>> ELSE <<"\n\t--> ">> \o Head(stack) \o context_stack_join(Tail(stack))

context_stack_string(v) == context_stack_join(v.data.context_stack)

ValidationError(type, table, context, key, error) == [type |-> type, table |-> table, context |-> context, key |-> key, error |-> error]

push_error(v, e) == [v EXCEPT !.data.errors = Append(@, e)]

unknown_key(v, k) == push_error(v, ValidationError("UnknownKey", v.ct, context_stack_string(v), k, NoMessage))

\* The missing key reported as a constraint on the table.
missing_key_as_table_error(v) == push_error(v, ValidationError("TableValidationError", v.ct, context_stack_string(v), "", Msg("missing key '{}'", <<>>)))

missing_key(v) == push_error(v, ValidationError("MissingKey", v.ct, context_stack_string(v), v.current_key, NoMessage))

value_validation_error(v, error) == push_error(v, ValidationError("ValueValidationError", v.ct, context_stack_string(v), v.current_key, error))

table_validation_error(v, error) == push_error(v, ValidationError("TableValidationError", v.ct, context_stack_string(v), "", error))

data_mut(v) == v.data

with_data(v, data) == [v EXCEPT !.data = data]

\* The loop with a `break` after the first unknown key.
RECURSIVE check_unknown_keys_iter_breaks(_, _, _)
check_unknown_keys_iter_breaks(v, keys, possible_keys) == IF keys = <<>> THEN v ELSE IF contains(possible_keys, Head(keys)) THEN check_unknown_keys_iter_breaks(v, Tail(keys), possible_keys) ELSE unknown_key(v, Head(keys))

RECURSIVE check_unknown_keys_iter(_, _, _)
check_unknown_keys_iter(v, keys, possible_keys) == IF keys = <<>> THEN v ELSE check_unknown_keys_iter(IF contains(possible_keys, Head(keys)) THEN v ELSE unknown_key(v, Head(keys)), Tail(keys), possible_keys)

check_unknown_keys(v, possible_keys) == check_unknown_keys_iter(v, table_iter(v.table), possible_keys)

(***************************************************************************)
(* ValidatorResult(Result<Option<T>, ()>, &mut TableValidator) is the      *)
(* record [r, v].                                                          *)
(***************************************************************************)
ValidatorResult(r, v) == [r |-> r, v |-> v]

\* optional_key_check with the closures of value/array/table/boolean/
\* integer/text: `kind` is the toml type the closure accepts ("" for any)
\* and `field` the payload it returns (item.as_str(), item.as_integer() ...).
optional_key_check(v, key, kind, field, expected) ==
    LET ec == change_current_key(v, key)
    IN  IF key \notin DOMAIN v.table THEN ValidatorResult(Ok(None), ec)
        ELSE LET item == v.table[key]
             IN  IF kind = "" THEN ValidatorResult(Ok(Some(item)), ec)
                 ELSE IF item.kind = kind THEN ValidatorResult(Ok(Some(item[field])), ec)
                 ELSE ValidatorResult(ErrUnit, value_validation_error(ec, Msg(expected, <<>>)))

value(v, key) == optional_key_check(v, key, "", "", "")

array(v, key) == optional_key_check(v, key, "Array", "a", "expected an array, found")

table(v, key) == optional_key_check(v, key, "Table", "t", "expected a table, found")

boolean(v, key) == optional_key_check(v, key, "Boolean", "b", "expected a boolean, found")

integer(v, key) == optional_key_check(v, key, "Integer", "i", "expected an integer, found")

text(v, key) == optional_key_check(v, key, "String", "s", "expected a string, found")

require(vr) ==
    IF ~vr.r.ok THEN ValidatorResult(ErrUnit, vr.v)
    ELSE IF is_none(vr.r.val) THEN ValidatorResult(ErrUnit, missing_key(vr.v))
    ELSE ValidatorResult(Ok(unwrap(vr.r.val)), vr.v)

optional(vr) == vr

map(vr, converter(_)) ==
    IF ~vr.r.ok THEN ValidatorResult(ErrUnit, vr.v)
    ELSE IF is_none(vr.r.val) THEN ValidatorResult(Ok(None), vr.v)
    ELSE LET c == converter(unwrap(vr.r.val))
         IN  IF c.ok THEN ValidatorResult(Ok(Some(c.val)), vr.v)
             ELSE ValidatorResult(ErrUnit, value_validation_error(vr.v, c.error))

array_of_tables_converter(arr) == IF arr = <<>> \/ arr[1].kind = "Table" THEN Ok(arr) ELSE Err(Msg("expected an array of tables, found", <<>>))

\* The iterator yields x.as_table().unwrap() of every element; toml arrays
\* are homogeneous, so a first element that is a table makes all tables.
array_of_tables(v, key) == map(array(v, key), array_of_tables_converter)

U16Max == 65535

u16_converter(number) == IF number < 0 THEN Err(Msg("negative value", <<>>)) ELSE IF number > U16Max THEN Err(Msg("larger value than u16::max_value", <<>>)) ELSE Ok(number)

try_from_type(v, key, T_try_from(_)) == map(text(v, key), T_try_from)

string_converter(s) == Ok(s)

string(v, key) == map(text(v, key), string_converter)

\* u16 without the upper bound.
u16_unbounded(v, key) == map(integer(v, key), LAMBDA number : IF number < 0 THEN Err(Msg("negative value", <<>>)) ELSE Ok(number))

u16(v, key) == map(integer(v, key), u16_converter)

\* Name and TableValidator::name / try_from_integer are used by the
\* validators but defined outside the available sources: a name is a
\* non-empty identifier, an integer converts to u64 unless it is negative.
Name_try_from(s) == IF s = <<>> THEN Err(Msg("name is empty", <<>>)) ELSE Ok(s)

name(v, key) == map(text(v, key), Name_try_from)

u64_try_from(number) == IF number < 0 THEN Err(Msg("out of range integral type conversion attempted", <<>>)) ELSE Ok(number)

try_from_integer(v, key) == map(integer(v, key), u64_try_from)

(***************************************************************************)
(* Text conversions (register.rs:36-52, 132-169, 234-256;                  *)
(* register_description.rs:99-136).                                        *)
(***************************************************************************)
DigitChars == <<"0", "1", "2", "3", "4", "5", "6", "7", "8", "9">>

is_digit(c) == contains(DigitChars, c)

digit_value(c) == (CHOOSE n \in 1..10 : DigitChars[n] = c) - 1

RECURSIVE parse_u16_digits(_, _)
parse_u16_digits(s, acc) ==
    IF s = <<>> THEN Ok(acc)
    ELSE IF ~is_digit(Head(s)) THEN Err(Msg("invalid digit found in string", <<>>))
    ELSE LET next == acc * 10 + digit_value(Head(s))
         IN  IF next > U16Max THEN Err(Msg("number too large to fit in target type", <<>>))
             ELSE parse_u16_digits(Tail(s), next)

\* str::parse::<u16>: an optional leading '+', then at least one digit.
parse_u16(s) ==
    IF s = <<>> THEN Err(Msg("cannot parse integer from empty string", <<>>))
    ELSE IF Head(s) = "+" THEN (IF Tail(s) = <<>> THEN Err(Msg("invalid digit found in string", <<>>)) ELSE parse_u16_digits(Tail(s), 0))
    ELSE parse_u16_digits(s, 0)

RECURSIVE to_string(_)
to_string(n) == IF n < 10 THEN <<DigitChars[n + 1]>> ELSE to_string(n \div 10) \o <<DigitChars[(n % 10) + 1]>>

RECURSIVE split(_, _)
split(s, sep) ==
    IF ~contains(s, sep) THEN <<s>>
    ELSE LET n == CHOOSE n \in 1..Len(s) : s[n] = sep /\ \A m \in 1..(n - 1) : s[m] # sep
         IN  <<SubSeq(s, 1, n - 1)>> \o split(SubSeq(s, n + 1, Len(s)), sep)

BitRange_new(msb, lsb) == [msb |-> msb, lsb |-> lsb]

BitRange_fmt(range) == IF range.msb = range.lsb THEN to_string(range.msb) ELSE to_string(range.msb) \o <<":">> \o to_string(range.lsb)

BitRange_try_from(s) ==
    LET bit == split(s, ":")
    IN  IF Len(bit) = 2 THEN
            LET msb == parse_u16(bit[1])
                lsb == parse_u16(bit[2])
            IN  IF ~msb.ok THEN msb
                ELSE IF ~lsb.ok THEN lsb
                ELSE IF msb.val < lsb.val THEN Err(Msg("most significant bit is smaller than least significant bit (msb < lsb), value", <<s>>))
                ELSE IF msb.val = lsb.val THEN Err(Msg("unnecessary range syntax, change", <<s, to_string(msb.val)>>))
                ELSE Ok(BitRange_new(msb.val, lsb.val))
        ELSE IF Len(bit) = 1 THEN
            LET single_bit == parse_u16(bit[1])
            IN  IF ~single_bit.ok THEN single_bit ELSE Ok(BitRange_new(single_bit.val, single_bit.val))
        ELSE Err(Msg("invalid bit range", <<s>>))

RegisterSizes == {8, 16, 32, 64}

RegisterSize_try_from(s) ==
    IF s = <<"8">> THEN Ok(8)
    ELSE IF s = <<"1", "6">> THEN Ok(16)
    ELSE IF s = <<"3", "2">> THEN Ok(32)
    ELSE IF s = <<"6", "4">> THEN Ok(64)
    ELSE Err(Msg("unsupported register size, supported register sizes are 8, 16, 32 and 64", <<s>>))

AccessMode_try_from(s) ==
    IF s = <<"r">> THEN Ok("Read")
    ELSE IF s = <<"w">> THEN Ok("Write")
    ELSE IF s = <<"r", "w">> THEN Ok("ReadWrite")
    ELSE Err(Msg("unsupported register access mode, supported modes are 'r', 'w' or 'rw'", <<s>>))

VERSION_ZERO_ONE == <<"0", ".", "1">>

SpecVersion_try_from(s) == IF s = VERSION_ZERO_ONE THEN Ok("VersionZeroOne") ELSE Err(Msg("unknown register description specification version", <<s>>))

EXTENSION_VGA == <<"v", "g", "a">>

Extension_try_from(s) == IF s = EXTENSION_VGA THEN Ok("Vga") ELSE Err(Msg("unknown extension", <<s>>))

(***************************************************************************)
(* u64 / u128 arithmetic on 16-bit limbs, least significant limb first     *)
(* (BitRange::bit_count and BitRange::max_value, register.rs:104-129).     *)
(***************************************************************************)
LimbBase == 65536

RECURSIVE pow2(_)
pow2(n) == IF n = 0 THEN 1 ELSE 2 * pow2(n - 1)

\* A small non-negative number widened to `limbs` limbs (as u64, as u128).
widen(n, limbs) == [k \in 1..limbs |-> IF k = 1 THEN n % LimbBase ELSE IF k = 2 THEN n \div LimbBase ELSE 0]

u64_max_value == [k \in 1..4 |-> LimbBase - 1]

\* 2u64.pow(bit_count) - 1 for bit_count < 64.
u64_pow2_minus_1(bit_count) == [k \in 1..4 |-> IF bit_count >= 16 * k THEN LimbBase - 1 ELSE IF bit_count <= 16 * (k - 1) THEN 0 ELSE pow2(bit_count - 16 * (k - 1)) - 1]

\* a > b for two numbers of the same limb count.
limbs_gt(a, b) == \E k \in 1..Len(a) : a[k] > b[k] /\ \A m \in (k + 1)..Len(a) : a[m] = b[m]

RECURSIVE limbs_add_one(_)
limbs_add_one(a) == IF a = <<>> THEN <<>> ELSE IF Head(a) + 1 < LimbBase THEN <<Head(a) + 1>> \o Tail(a) ELSE <<0>> \o limbs_add_one(Tail(a))

u64_as_u128(a) == a \o <<0, 0, 0, 0>>

bit_count(range) == range.msb - range.lsb + 1

max_value(range) ==
    IF bit_count(range) > 64 THEN Err(Msg("bit range is larger than 64 bits", <<BitRange_fmt(range)>>))
    ELSE IF bit_count(range) = 64 THEN Ok(u64_max_value)
    ELSE Ok(u64_pow2_minus_1(bit_count(range)))

(***************************************************************************)
(* Register::check_functions (register.rs:275-356).                        *)
(***************************************************************************)
RegisterSize_fmt(size) == to_string(size)

\* check_function_bit without the overlap_detected guard: every shared bit reports.
check_function_bit_reports_every_bit(f, i, st) ==
    IF st.broken THEN st
    ELSE IF i >= Len(st.bits) THEN [st EXCEPT !.broken = TRUE, !.v = table_validation_error(@, Msg("function bit range '{}' is not inside register bounds, register size: {}", <<BitRange_fmt(f.range), RegisterSize_fmt(Len(st.bits))>>))]
    ELSE IF is_none(st.bits[i + 1]) THEN [st EXCEPT !.bits[i + 1] = Some(f.range)]
    ELSE [st EXCEPT !.overlap_detected = TRUE, !.v = table_validation_error(@, Msg("function bit range '{}' overlaps with another function '{}'", <<BitRange_fmt(f.range), BitRange_fmt(unwrap(st.bits[i + 1]))>>))]

\* check_function_bit that leaves the loop at the first overlap.
check_function_bit_breaks_on_overlap(f, i, st) ==
    IF st.broken THEN st
    ELSE IF i >= Len(st.bits) THEN [st EXCEPT !.broken = TRUE, !.v = table_validation_error(@, Msg("function bit range '{}' is not inside register bounds, register size: {}", <<BitRange_fmt(f.range), RegisterSize_fmt(Len(st.bits))>>))]
    ELSE IF is_none(st.bits[i + 1]) THEN [st EXCEPT !.bits[i + 1] = Some(f.range)]
    ELSE [st EXCEPT !.overlap_detected = TRUE, !.broken = TRUE, !.v = table_validation_error(@, Msg("function bit range '{}' overlaps with another function '{}'", <<BitRange_fmt(f.range), BitRange_fmt(unwrap(st.bits[i + 1]))>>))]

\* The body of `for i in f.range.lsb..=f.range.msb`; st holds what the loop
\* changes: bits, overlap_detected, the validator, and whether it has broken.
check_function_bit(f, i, st) ==
    IF st.broken THEN st
    ELSE IF i >= Len(st.bits) THEN [st EXCEPT !.broken = TRUE, !.v = table_validation_error(@, Msg("function bit range '{}' is not inside register bounds, register size: {}", <<BitRange_fmt(f.range), RegisterSize_fmt(Len(st.bits))>>))]
    ELSE IF is_none(st.bits[i + 1]) THEN [st EXCEPT !.bits[i + 1] = Some(f.range)]
    ELSE [st EXCEPT !.overlap_detected = TRUE, !.v = IF ~st.overlap_detected THEN table_validation_error(@, Msg("function bit range '{}' overlaps with another function '{}'", <<BitRange_fmt(f.range), BitRange_fmt(unwrap(st.bits[i + 1]))>>)) ELSE @]

\* The iterations lo..=hi of that loop, in ascending order.
RECURSIVE check_function_bits(_, _, _, _)
check_function_bits(f, lo, hi, st) ==
    IF lo > hi THEN st
    ELSE IF lo = hi THEN check_function_bit(f, lo, st)
    ELSE LET first_half == check_function_bits(f, lo, (lo + hi) \div 2, st)
         IN  IF first_half.broken THEN first_half ELSE check_function_bits(f, ((lo + hi) \div 2) + 1, hi, first_half)

\* The loop `for f in self.functions.iter()`.
RECURSIVE claim_function_bits(_, _, _)
claim_function_bits(functions, bits, v) ==
    IF functions = <<>> THEN [bits |-> bits, v |-> v]
    ELSE LET st == check_function_bits(Head(functions), Head(functions).range.lsb, Head(functions).range.msb, [bits |-> bits, overlap_detected |-> FALSE, broken |-> FALSE, v |-> v])
         IN  claim_function_bits(Tail(functions), st.bits, st.v)

\* ranges_without_function_bit closing a run one bit too high.
ranges_without_function_bit_off_by_one(bits, i, st) ==
    IF is_none(st.lsb) /\ is_some(bits[i + 1]) THEN st
    ELSE IF is_none(st.lsb) /\ is_none(bits[i + 1]) THEN [st EXCEPT !.lsb = Some(i)]
    ELSE IF is_some(st.lsb) /\ is_none(bits[i + 1]) THEN st
    ELSE [lsb |-> None, ranges |-> Append(st.ranges, BitRange_new(i, unwrap(st.lsb)))]

\* The body of `for (i, b) in bits.iter().enumerate()`; st holds lsb and
\* ranges_without_function.
ranges_without_function_bit(bits, i, st) ==
    IF is_none(st.lsb) /\ is_some(bits[i + 1]) THEN st
    ELSE IF is_none(st.lsb) /\ is_none(bits[i + 1]) THEN [st EXCEPT !.lsb = Some(i)]
    ELSE IF is_some(st.lsb) /\ is_none(bits[i + 1]) THEN st
    ELSE [lsb |-> None, ranges |-> Append(st.ranges, BitRange_new(i - 1, unwrap(st.lsb)))]

\* The iterations lo..=hi of that loop, in ascending order.
RECURSIVE ranges_without_function_loop(_, _, _, _)
ranges_without_function_loop(bits, lo, hi, st) ==
    IF lo > hi THEN st
    ELSE IF lo = hi THEN ranges_without_function_bit(bits, lo, st)
    ELSE LET first_half == ranges_without_function_loop(bits, lo, (lo + hi) \div 2, st)
         IN  IF first_half.lsb = None THEN ranges_without_function_loop(bits, ((lo + hi) \div 2) + 1, hi, [lsb |-> None, ranges |-> first_half.ranges])
             ELSE ranges_without_function_loop(bits, ((lo + hi) \div 2) + 1, hi, first_half)

\* ranges_without_function_scan that forgets the run reaching the last bit.
ranges_without_function_scan_forgets_last_run(bits) == ranges_without_function_loop(bits, 0, Len(bits) - 1, [lsb |-> None, ranges |-> <<>>]).ranges

\* register.rs:299-331: the loop, then the run that reaches the last bit.
ranges_without_function_scan(bits) ==
    LET st == ranges_without_function_loop(bits, 0, Len(bits) - 1, [lsb |-> None, ranges |-> <<>>])
    IN  IF is_some(st.lsb) THEN Append(st.ranges, BitRange_new(Len(bits) - 1, unwrap(st.lsb))) ELSE st.ranges

RECURSIVE ranges_string_write(_)
ranges_string_write(ranges) == IF ranges = <<>> THEN <<>> ELSE <<"'">> \o BitRange_fmt(Head(ranges)) \o <<"'", ",", " ">> \o ranges_string_write(Tail(ranges))

string_pop(s) == SubSeq(s, 1, Len(s) - 1)

report_ranges_without_function(ranges_without_function, v) ==
    IF Len(ranges_without_function) = 0 THEN v
    ELSE IF Len(ranges_without_function) = 1 THEN
        LET range == ranges_without_function[1]
        IN  IF range.msb = range.lsb THEN table_validation_error(v, Msg("register bit '{}' is undefined", <<BitRange_fmt(range)>>))
            ELSE table_validation_error(v, Msg("some register bits are undefined, '{}'", <<BitRange_fmt(range)>>))
    ELSE table_validation_error(v, Msg("some register bits are undefined, {}", <<string_pop(string_pop(ranges_string_write(ranges_without_function)))>>))

check_functions(self, v) ==
    LET claimed == claim_function_bits(self.functions, [k \in 1..self.size_in_bits |-> None], v)
    IN  report_ranges_without_function(ranges_without_function_scan(claimed.bits), claimed.v)

(***************************************************************************)
(* Register::check_register_enums (register.rs:367-430).                   *)
(***************************************************************************)
\* HashMap::insert: the previous value of the key, and the updated map.
hash_map_insert(m, k, x) == [previous |-> IF k \in DOMAIN m THEN Some(m[k]) ELSE None, m |-> (k :> x) @@ m]

EmptyHashMap == [k \in {} |-> None]

\* check_enum_values without the duplicate check.
RECURSIVE check_enum_values_ignores_duplicates(_, _, _, _, _)
check_enum_values_ignores_duplicates(e, values, max_value_for_enum, enum_values, v) ==
    IF values = <<>> THEN v
    ELSE check_enum_values_ignores_duplicates(e, Tail(values), max_value_for_enum, enum_values, IF limbs_gt(widen(Head(values).value, 4), max_value_for_enum) THEN table_validation_error(v, Msg("enum value '{}' with value '{}' for enum '{}' is larger than enum max value '{}'", <<Head(values).name, to_string(Head(values).value), e.name>>)) ELSE v)

\* check_enum_values with `>=` for `>` in the comparison with the maximum.
RECURSIVE check_enum_values_rejects_max_value(_, _, _, _, _)
check_enum_values_rejects_max_value(e, values, max_value_for_enum, enum_values, v) ==
    IF values = <<>> THEN v
    ELSE LET enum_value == Head(values)
             v1 == IF limbs_gt(widen(enum_value.value, 4), max_value_for_enum) \/ widen(enum_value.value, 4) = max_value_for_enum THEN table_validation_error(v, Msg("enum value '{}' with value '{}' for enum '{}' is larger than enum max value '{}'", <<enum_value.name, to_string(enum_value.value), e.name>>)) ELSE v
             ins == hash_map_insert(enum_values, enum_value.value, enum_value.name)
             v2 == IF is_some(ins.previous) THEN table_validation_error(v1, Msg("enum values '{}' and '{}' have the same value '{}'", <<enum_value.name, unwrap(ins.previous), to_string(enum_value.value)>>)) ELSE v1
         IN  check_enum_values_rejects_max_value(e, Tail(values), max_value_for_enum, ins.m, v2)

RECURSIVE check_enum_values(_, _, _, _, _)
check_enum_values(e, values, max_value_for_enum, enum_values, v) ==
    IF values = <<>> THEN v
    ELSE LET enum_value == Head(values)
             v1 == IF limbs_gt(widen(enum_value.value, 4), max_value_for_enum) THEN table_validation_error(v, Msg("enum value '{}' with value '{}' for enum '{}' is larger than enum max value '{}'", <<enum_value.name, to_string(enum_value.value), e.name>>)) ELSE v
             ins == hash_map_insert(enum_values, enum_value.value, enum_value.name)
             v2 == IF is_some(ins.previous) THEN table_validation_error(v1, Msg("enum values '{}' and '{}' have the same value '{}'", <<enum_value.name, unwrap(ins.previous), to_string(enum_value.value)>>)) ELSE v1
         IN  check_enum_values(e, Tail(values), max_value_for_enum, ins.m, v2)

some_range_matched(functions, e) == \E n \in 1..Len(functions) : functions[n].range = e.range

\* The scan without the test of the function status.
reserved_function_match_ignores_status(functions, e) == FALSE

reserved_function_match(functions, e) == \E n \in 1..Len(functions) : functions[n].range = e.range /\ functions[n].status.reserved

\* required_count_matches without the `+ 1`.
required_count_matches_without_one(e, max_value_for_enum) == u64_as_u128(max_value_for_enum) = widen(Len(e.values), 8)

\* The completeness flag (register.rs:418-428).
required_count_matches(e, max_value_for_enum) == limbs_add_one(u64_as_u128(max_value_for_enum)) = widen(Len(e.values), 8)

\* One iteration of `for e in &mut self.enums`: the enum as left by the
\* iteration, the map of claimed enum ranges and the validator.
check_register_enum(functions, e, enum_bit_ranges, v) ==
    IF ~some_range_matched(functions, e) THEN [e |-> e, enum_bit_ranges |-> enum_bit_ranges, v |-> table_validation_error(v, Msg("no matching function bit range found for enum '{}'", <<e.name>>))]
    ELSE IF reserved_function_match(functions, e) THEN [e |-> e, enum_bit_ranges |-> enum_bit_ranges, v |-> table_validation_error(v, Msg("enum '{}' bit range is reserved", <<e.name>>))]
    ELSE LET ins == hash_map_insert(enum_bit_ranges, e.range, e.name)
         IN  IF is_some(ins.previous) THEN [e |-> e, enum_bit_ranges |-> ins.m, v |-> table_validation_error(v, Msg("same bit range '{}' is defined found for enums '{}' and '{}'", <<BitRange_fmt(e.range), e.name, unwrap(ins.previous)>>))]
             ELSE LET max_value_for_enum == max_value(e.range)
                  IN  IF ~max_value_for_enum.ok THEN [e |-> e, enum_bit_ranges |-> ins.m, v |-> table_validation_error(v, Msg("enum '{}' {}", <<e.name>> \o max_value_for_enum.error.args))]
                      ELSE [e |-> IF required_count_matches(e, max_value_for_enum.val) THEN [e EXCEPT !.all_possible_values_are_defined = TRUE] ELSE e,
                            enum_bit_ranges |-> ins.m,
                            v |-> check_enum_values(e, e.values, max_value_for_enum.val, EmptyHashMap, v)]

RECURSIVE check_register_enums_iter(_, _, _, _, _)
check_register_enums_iter(functions, enums, done, enum_bit_ranges, v) ==
    IF enums = <<>> THEN [enums |-> done, v |-> v]
    ELSE LET r == check_register_enum(functions, Head(enums), enum_bit_ranges, v)
         IN  check_register_enums_iter(functions, Tail(enums), Append(done, r.e), r.enum_bit_ranges, r.v)

\* Returns the register with its enums flagged, and the validator.
check_register_enums(self, v) ==
    LET r == check_register_enums_iter(self.functions, self.enums, <<>>, EmptyHashMap, v)
    IN  [self |-> [self EXCEPT !.enums = r.enums], v |-> r.v]

(***************************************************************************)
(* Entity validators (register.rs:500-655, register_description.rs:40-72). *)
(* Each returns [res, data]: its Result and the ParserContextAndErrors     *)
(* after its TableValidator was dropped.                                   *)
(***************************************************************************)
Returned(res, data) == [res |-> res, data |-> data]

\* Option::or with its operands exchanged: the default wins.
or_default_prefers_default(o, default) == IF is_some(default) THEN default ELSE o

or_default(o, default) == IF is_some(o) THEN o ELSE default

validate_enum_value_table_with_description(ename, number, description) ==
    IF ~description.r.ok THEN Returned(ErrUnit, drop(description.v))
    ELSE Returned(Ok([value |-> number, name |-> ename, description |-> description.r.val]), drop(description.v))

validate_enum_value_table_with_value(ename, number) ==
    IF ~number.r.ok THEN Returned(ErrUnit, drop(number.v))
    ELSE validate_enum_value_table_with_description(ename, number.r.val, optional(string(number.v, DESCRIPTION_KEY)))

validate_enum_value_table_with_name(ename) ==
    IF ~ename.r.ok THEN Returned(ErrUnit, drop(ename.v))
    ELSE validate_enum_value_table_with_value(ename.r.val, require(try_from_integer(check_unknown_keys(push_context_identifier(ename.v, <<"enum value '">> \o ename.r.val \o <<"'">>), POSSIBLE_KEYS_ENUM_VALUE), VALUE_KEY)))

validate_enum_value_table(tbl, data) ==
    validate_enum_value_table_with_name(require(name(TableValidator_new(tbl, "EnumValue", data), NAME_KEY)))

\* .map(validate).filter(is_ok).map(unwrap).collect() over an array of tables.
RECURSIVE validate_enum_value_tables(_, _, _)
validate_enum_value_tables(tables, data, collected) ==
    LET collect(r) == validate_enum_value_tables(Tail(tables), r.data, IF r.res.ok THEN Append(collected, r.res.val) ELSE collected)
    IN  IF tables = <<>> THEN [val |-> collected, data |-> data]
        ELSE collect(validate_enum_value_table(Head(tables).t, data))

validate_enum_table_with_values(ename, range, description, w, values) ==
    Returned(Ok([name |-> ename, range |-> range, description |-> description, values |-> values.val, all_possible_values_are_defined |-> FALSE]), drop(with_data(w, values.data)))

validate_enum_table_with_value_tables(ename, range, description, value_tables) ==
    IF ~value_tables.r.ok THEN Returned(ErrUnit, drop(value_tables.v))
    ELSE validate_enum_table_with_values(ename, range, description, value_tables.v, validate_enum_value_tables(value_tables.r.val, data_mut(value_tables.v), <<>>))

validate_enum_table_with_description(ename, range, description) ==
    IF ~description.r.ok THEN Returned(ErrUnit, drop(description.v))
    ELSE validate_enum_table_with_value_tables(ename, range, description.r.val, require(array_of_tables(description.v, VALUES_KEY)))

validate_enum_table_with_range(ename, range) ==
    IF ~range.r.ok THEN Returned(ErrUnit, drop(range.v))
    ELSE validate_enum_table_with_description(ename, range.r.val, optional(string(range.v, DESCRIPTION_KEY)))

validate_enum_table_with_name(ename) ==
    IF ~ename.r.ok THEN Returned(ErrUnit, drop(ename.v))
    ELSE validate_enum_table_with_range(ename.r.val, require(try_from_type(check_unknown_keys(push_context_identifier(ename.v, <<"enum '">> \o ename.r.val \o <<"'">>), POSSIBLE_KEYS_ENUM), BIT_KEY, BitRange_try_from)))

validate_enum_table(tbl, data) ==
    validate_enum_table_with_name(require(name(TableValidator_new(tbl, "Enum", data), NAME_KEY)))

RECURSIVE validate_enum_tables(_, _, _)
validate_enum_tables(tables, data, collected) ==
    LET collect(r) == validate_enum_tables(Tail(tables), r.data, IF r.res.ok THEN Append(collected, r.res.val) ELSE collected)
    IN  IF tables = <<>> THEN [val |-> collected, data |-> data]
        ELSE collect(validate_enum_table(Head(tables).t, data))

FunctionStatus_Reserved == [reserved |-> TRUE, name |-> <<>>, description |-> None]

FunctionStatus_Normal(fname, description) == [reserved |-> FALSE, name |-> fname, description |-> description]

validate_function_table_with_description(range, reserved, fname, description) ==
    IF ~description.r.ok THEN Returned(ErrUnit, drop(description.v))
    ELSE IF ~reserved /\ is_some(fname) THEN Returned(Ok([range |-> range, status |-> FunctionStatus_Normal(unwrap(fname), description.r.val)]), drop(description.v))
    ELSE IF ~reserved THEN Returned(ErrUnit, drop(table_validation_error(description.v, Msg("missing key '{}'", <<>>))))
    ELSE IF is_some(fname) THEN Returned(ErrUnit, drop(table_validation_error(description.v, Msg("key '{}' is not allowed when function is marked as reserved", <<>>))))
    ELSE Returned(Ok([range |-> range, status |-> FunctionStatus_Reserved]), drop(description.v))

validate_function_table_with_name(range, reserved, fname) ==
    IF ~fname.r.ok THEN Returned(ErrUnit, drop(fname.v))
    ELSE validate_function_table_with_description(range, reserved, fname.r.val, optional(string(fname.v, DESCRIPTION_KEY)))

validate_function_table_with_reserved(range, reserved) ==
    IF ~reserved.r.ok THEN Returned(ErrUnit, drop(reserved.v))
    ELSE validate_function_table_with_name(range, IF is_some(reserved.r.val) THEN unwrap(reserved.r.val) ELSE FALSE, optional(name(reserved.v, NAME_KEY)))

validate_function_table_with_range(range) ==
    IF ~range.r.ok THEN Returned(ErrUnit, drop(range.v))
    ELSE validate_function_table_with_reserved(range.r.val, optional(boolean(check_unknown_keys(push_context_identifier(range.v, <<"function '">> \o BitRange_fmt(range.r.val) \o <<"'">>), POSSIBLE_KEYS_FUNCTION), RESERVED_KEY)))

validate_function_table(tbl, data) ==
    validate_function_table_with_range(require(try_from_type(TableValidator_new(tbl, "Function", data), BIT_KEY, BitRange_try_from)))

\* The collection with a stop at the first bit field that fails.
RECURSIVE validate_function_tables_stops_at_failure(_, _, _)
validate_function_tables_stops_at_failure(tables, data, collected) ==
    LET collect(r) == IF r.res.ok THEN validate_function_tables_stops_at_failure(Tail(tables), r.data, Append(collected, r.res.val)) ELSE [val |-> collected, data |-> r.data]
    IN  IF tables = <<>> THEN [val |-> collected, data |-> data]
        ELSE collect(validate_function_table(Head(tables).t, data))

RECURSIVE validate_function_tables(_, _, _)
validate_function_tables(tables, data, collected) ==
    LET collect(r) == validate_function_tables(Tail(tables), r.data, IF r.res.ok THEN Append(collected, r.res.val) ELSE collected)
    IN  IF tables = <<>> THEN [val |-> collected, data |-> data]
        ELSE collect(validate_function_table(Head(tables).t, data))

RegisterLocation(kind, n) == [kind |-> kind, n |-> n]

\* The location block as a chain of `if let`: the first key present wins.
register_location_first_key_wins(v) ==
    IF INDEX_KEY \in DOMAIN v.table THEN ValidatorResult(Ok(RegisterLocation("Index", v.table[INDEX_KEY].i)), v)
    ELSE IF ABSOLUTE_ADDRESS_KEY \in DOMAIN v.table THEN ValidatorResult(Ok(RegisterLocation("Absolute", v.table[ABSOLUTE_ADDRESS_KEY].i)), v)
    ELSE IF RELATIVE_ADDRESS_KEY \in DOMAIN v.table THEN ValidatorResult(Ok(RegisterLocation("Relative", v.table[RELATIVE_ADDRESS_KEY].i)), v)
    ELSE ValidatorResult(ErrUnit, table_validation_error(v, Msg("register location field '{}', '{}', or '{}' is required", <<>>)))

\* The `location` block (register.rs:517-529): three optional integers,
\* then the match.  [r, v] with r the Result of the block.
register_location_matched(i, a, r, w) ==
    IF is_some(i) /\ is_none(a) /\ is_none(r) THEN ValidatorResult(Ok(RegisterLocation("Index", unwrap(i))), w)
    ELSE IF is_none(i) /\ is_some(a) /\ is_none(r) THEN ValidatorResult(Ok(RegisterLocation("Absolute", unwrap(a))), w)
    ELSE IF is_none(i) /\ is_none(a) /\ is_some(r) THEN ValidatorResult(Ok(RegisterLocation("Relative", unwrap(r))), w)
    ELSE IF is_none(i) /\ is_none(a) /\ is_none(r) THEN ValidatorResult(ErrUnit, table_validation_error(w, Msg("register location field '{}', '{}', or '{}' is required", <<>>)))
    ELSE ValidatorResult(ErrUnit, table_validation_error(w, Msg("register location field count error: only one location field is supported", <<>>)))

register_location_with_relative_address(i, a, relative_address) ==
    IF ~relative_address.r.ok THEN ValidatorResult(ErrUnit, relative_address.v)
    ELSE register_location_matched(i, a, relative_address.r.val, relative_address.v)

register_location_with_absolute_address(i, absolute_address) ==
    IF ~absolute_address.r.ok THEN ValidatorResult(ErrUnit, absolute_address.v)
    ELSE register_location_with_relative_address(i, absolute_address.r.val, optional(try_from_integer(absolute_address.v, RELATIVE_ADDRESS_KEY)))

register_location_with_index(index) ==
    IF ~index.r.ok THEN ValidatorResult(ErrUnit, index.v)
    ELSE register_location_with_absolute_address(index.r.val, optional(try_from_integer(index.v, ABSOLUTE_ADDRESS_KEY)))

register_location(v) ==
    register_location_with_index(optional(try_from_integer(v, INDEX_KEY)))

\* register.rs:500-576.  Each step receives the values the function has
\* bound so far and the result of the next `?` expression.
validate_register_table_checked(r) == Returned(Ok(r.self), drop(r.v))

validate_register_table_with_register(register, w) == validate_register_table_checked(check_register_enums(register, check_functions(register, w)))

validate_register_table_with_index(rname, description, location, size_in_bits, access_mode, functions, enums, index) ==
    IF ~index.r.ok THEN Returned(ErrUnit, drop(index.v))
    ELSE validate_register_table_with_register([name |-> rname, location |-> location, access_mode |-> access_mode, size_in_bits |-> size_in_bits, description |-> description, functions |-> functions, enums |-> enums, index |-> index.r.val], index.v)

validate_register_table_with_enums(rname, description, location, size_in_bits, access_mode, functions, w, enums) ==
    validate_register_table_with_index(rname, description, location, size_in_bits, access_mode, functions, enums.val, optional(u16(with_data(w, enums.data), INDEX_KEY)))

validate_register_table_with_enum_tables(rname, description, location, size_in_bits, access_mode, functions, enum_tables) ==
    IF ~enum_tables.r.ok THEN Returned(ErrUnit, drop(enum_tables.v))
    ELSE validate_register_table_with_enums(rname, description, location, size_in_bits, access_mode, functions, enum_tables.v,
                    IF is_some(enum_tables.r.val) THEN validate_enum_tables(unwrap(enum_tables.r.val), data_mut(enum_tables.v), <<>>) ELSE [val |-> <<>>, data |-> data_mut(enum_tables.v)])

validate_register_table_with_functions(rname, description, location, size_in_bits, access_mode, w, functions) ==
    validate_register_table_with_enum_tables(rname, description, location, size_in_bits, access_mode, functions.val, optional(array_of_tables(with_data(w, functions.data), ENUMS_KEY)))

validate_register_table_with_function_tables(rname, description, location, size_in_bits, access_mode, function_tables) ==
    IF ~function_tables.r.ok THEN Returned(ErrUnit, drop(function_tables.v))
    ELSE validate_register_table_with_functions(rname, description, location, size_in_bits, access_mode, function_tables.v, validate_function_tables(function_tables.r.val, data_mut(function_tables.v), <<>>))

validate_register_table_with_access_mode(rname, description, location, size_in_bits, access_mode, w) ==
    IF is_none(access_mode) THEN Returned(ErrUnit, drop(table_validation_error(w, Msg("register access mode is undefined", <<>>))))
    ELSE validate_register_table_with_function_tables(rname, description, location, size_in_bits, unwrap(access_mode), require(array_of_tables(w, FUNCTIONS_KEY)))

validate_register_table_with_access_key(rname, description, location, size_in_bits, access_key, rd) ==
    IF ~access_key.r.ok THEN Returned(ErrUnit, drop(access_key.v))
    ELSE validate_register_table_with_access_mode(rname, description, location, size_in_bits, or_default(access_key.r.val, rd.default_register_access), access_key.v)

validate_register_table_with_size_in_bits(rname, description, location, size_in_bits, w, rd) ==
    IF is_none(size_in_bits) THEN Returned(ErrUnit, drop(table_validation_error(w, Msg("register size is undefined", <<>>))))
    ELSE validate_register_table_with_access_key(rname, description, location, unwrap(size_in_bits), optional(try_from_type(w, ACCESS_KEY, AccessMode_try_from)), rd)

validate_register_table_with_size_key(rname, description, location, size_key, rd) ==
    IF ~size_key.r.ok THEN Returned(ErrUnit, drop(size_key.v))
    ELSE validate_register_table_with_size_in_bits(rname, description, location, or_default(size_key.r.val, rd.default_register_size_in_bits), size_key.v, rd)

validate_register_table_with_location(rname, description, location, rd) ==
    IF ~location.r.ok THEN Returned(ErrUnit, drop(location.v))
    ELSE validate_register_table_with_size_key(rname, description, location.r.val, optional(try_from_type(location.v, SIZE_IN_BITS_KEY, RegisterSize_try_from)), rd)

validate_register_table_with_description(rname, description, rd) ==
    IF ~description.r.ok THEN Returned(ErrUnit, drop(description.v))
    ELSE validate_register_table_with_location(rname, description.r.val, register_location(description.v), rd)

validate_register_table_with_name(rname, rd) ==
    IF ~rname.r.ok THEN Returned(ErrUnit, drop(rname.v))
    ELSE validate_register_table_with_description(rname.r.val, optional(string(check_unknown_keys(push_context_identifier(rname.v, <<"register '">> \o rname.r.val \o <<"'">>), IF rd.extension = Some("Vga") THEN POSSIBLE_KEYS_REGISTER \o <<INDEX_KEY>> ELSE POSSIBLE_KEYS_REGISTER), DESCRIPTION_KEY)), rd)

validate_register_table(tbl, rd, data) ==
    validate_register_table_with_name(require(name(TableValidator_new(tbl, "Register", data), NAME_KEY)), rd)

AddressSize_Pointer == 0

check_register_description_with_address_size(version, dname, description, extension, default_register_size_in_bits, default_register_access, index_size, address_size) ==
    IF ~address_size.r.ok THEN Returned(ErrUnit, drop(address_size.v))
    ELSE Returned(Ok([version |-> version, name |-> dname, description |-> description, extension |-> extension,
                      default_register_size_in_bits |-> default_register_size_in_bits, default_register_access |-> default_register_access,
                      index_size |-> IF is_some(index_size) THEN unwrap(index_size) ELSE 64,
                      address_size |-> IF is_some(address_size.r.val) THEN unwrap(address_size.r.val) ELSE AddressSize_Pointer]), drop(address_size.v))

check_register_description_with_index_size(version, dname, description, extension, default_register_size_in_bits, default_register_access, index_size) ==
    IF ~index_size.r.ok THEN Returned(ErrUnit, drop(index_size.v))
    ELSE check_register_description_with_address_size(version, dname, description, extension, default_register_size_in_bits, default_register_access, index_size.r.val, optional(try_from_type(index_size.v, ADDRESS_SIZE_KEY, RegisterSize_try_from)))

check_register_description_with_default_register_access(version, dname, description, extension, default_register_size_in_bits, default_register_access) ==
    IF ~default_register_access.r.ok THEN Returned(ErrUnit, drop(default_register_access.v))
    ELSE check_register_description_with_index_size(version, dname, description, extension, default_register_size_in_bits, default_register_access.r.val, optional(try_from_type(default_register_access.v, INDEX_SIZE_KEY, RegisterSize_try_from)))

check_register_description_with_default_register_size(version, dname, description, extension, default_register_size_in_bits) ==
    IF ~default_register_size_in_bits.r.ok THEN Returned(ErrUnit, drop(default_register_size_in_bits.v))
    ELSE check_register_description_with_default_register_access(version, dname, description, extension, default_register_size_in_bits.r.val, optional(try_from_type(default_register_size_in_bits.v, DEFAULT_REGISTER_ACCESS_KEY, AccessMode_try_from)))

check_register_description_with_extension(version, dname, description, extension) ==
    IF ~extension.r.ok THEN Returned(ErrUnit, drop(extension.v))
    ELSE check_register_description_with_default_register_size(version, dname, description, extension.r.val, optional(try_from_type(extension.v, DEFAULT_REGISTER_SIZE_KEY, RegisterSize_try_from)))

check_register_description_with_description(version, dname, description) ==
    IF ~description.r.ok THEN Returned(ErrUnit, drop(description.v))
    ELSE check_register_description_with_extension(version, dname, description.r.val, optional(try_from_type(description.v, EXTENSION_KEY, Extension_try_from)))

check_register_description_with_version(dname, version) ==
    IF ~version.r.ok THEN Returned(ErrUnit, drop(version.v))
    ELSE check_register_description_with_description(version.r.val, dname, optional(string(version.v, DESCRIPTION_KEY)))

check_register_description_with_name(dname) ==
    IF ~dname.r.ok THEN Returned(ErrUnit, drop(dname.v))
    ELSE check_register_description_with_version(dname.r.val, require(try_from_type(push_context_identifier(dname.v, <<"register description '">> \o dname.r.val \o <<"'">>), VERSION_KEY, SpecVersion_try_from)))

check_register_description(tbl, data) ==
    check_register_description_with_name(require(name(check_unknown_keys(TableValidator_new(tbl, "RegisterDescription", data), POSSIBLE_KEYS), NAME_KEY)))

(***************************************************************************)
(* check_root_table (validation.rs:76-153), as the operators its steps     *)
(* apply.                                                                  *)
(***************************************************************************)
Registers_Groups(group_list) == [kind |-> "Groups", groups |-> group_list, registers |-> <<>>]

Registers_OnlyRegisters(register_list) == [kind |-> "OnlyRegisters", groups |-> <<>>, registers |-> register_list]

ParsedFile(rd) == [description |-> rd, registers |-> None]

\* check_root_description that goes on without a description.
check_root_description_goes_on(root) ==
    LET v0 == check_unknown_keys(TableValidator_new(root, "Root", ParserContextAndErrors_default), POSSIBLE_ROOT_KEYS)
        description_table == require(table(v0, REGISTER_DESCRIPTION_KEY))
        no_description == [version |-> "VersionZeroOne", name |-> <<>>, description |-> None, extension |-> None, default_register_size_in_bits |-> None, default_register_access |-> None, index_size |-> 64, address_size |-> AddressSize_Pointer]
    IN  IF ~description_table.r.ok THEN ValidatorResult(Ok(no_description), description_table.v)
        ELSE LET rd == check_register_description(description_table.r.val, data_mut(description_table.v))
             IN  ValidatorResult(IF rd.res.ok THEN rd.res ELSE Ok(no_description), with_data(description_table.v, rd.data))

\* validation.rs:77-96: the root validator, its unknown keys and the
\* description table.  [r, v] with r the Result holding the description.
check_root_description(root) ==
    LET v0 == check_unknown_keys(TableValidator_new(root, "Root", ParserContextAndErrors_default), POSSIBLE_ROOT_KEYS)
        description_table == require(table(v0, REGISTER_DESCRIPTION_KEY))
    IN  IF ~description_table.r.ok THEN ValidatorResult(ErrUnit, description_table.v)
        ELSE LET rd == check_register_description(description_table.r.val, data_mut(description_table.v))
             IN  ValidatorResult(rd.res, with_data(description_table.v, rd.data))

\* The entries `for (key, value) in table.iter()` visits.
group_entries(group_table) == [n \in 1..Len(table_iter(group_table)) |-> [key |-> Some(table_iter(group_table)[n]), val |-> group_table[table_iter(group_table)[n]]]]

\* validation.rs:103-126: the match on the `register` key.  `todo` lists
\* the arrays (with their group key, None for a flat array) the loops visit.
match_register_key(v) ==
    LET r == optional(value(v, REGISTER_KEY))
    IN  IF ~r.r.ok \/ is_none(r.r.val) THEN [todo |-> <<>>, v |-> r.v]
        ELSE IF unwrap(r.r.val).kind = "Array" THEN [todo |-> <<[key |-> None, val |-> unwrap(r.r.val)]>>, v |-> r.v]
        ELSE IF unwrap(r.r.val).kind = "Table" THEN [todo |-> group_entries(unwrap(r.r.val).t), v |-> r.v]
        ELSE [todo |-> <<>>, v |-> value_validation_error(r.v, Msg("expected a table or an array, found: {:?}", <<>>))]

\* root_result that looks at the context stack instead of the errors.
root_result_checks_context_stack(v, file) == IF Len(drop(v).context_stack) = 0 THEN Ok(file) ELSE Err(drop(v).errors)

\* validation.rs:128-134.
root_result(v, file) == IF Len(drop(v).errors) = 0 THEN Ok(file) ELSE Err(drop(v).errors)

(***************************************************************************)
(* Input documents.                                                        *)
(***************************************************************************)
SeqsUpTo(S, n) == UNION {[1..k -> S] : k \in 0..n}

Str_STATUS == <<"S", "T", "A", "T", "U", "S">>

Str_CTRL == <<"C", "T", "R", "L">>

Str_text == <<"t", "e", "x", "t">>

BitField(bit, fname) == Table((BIT_KEY :> String(bit)) @@ (NAME_KEY :> String(fname)))

ReservedBitField(bit) == Table((BIT_KEY :> String(bit)) @@ (RESERVED_KEY :> Boolean(TRUE)))

EnumValueTable(n, vname) == Table((VALUE_KEY :> Integer(n)) @@ (NAME_KEY :> String(vname)))

EnumTable(ename, bit, value_tables) == Table((NAME_KEY :> String(ename)) @@ (BIT_KEY :> String(bit)) @@ (VALUES_KEY :> Array(value_tables)))

\* A register table with its own size "8", access "r" and absolute_address 0x10.
RegisterTable(rname, bit_fields) == (NAME_KEY :> String(rname)) @@ (SIZE_IN_BITS_KEY :> String(<<"8">>)) @@ (ACCESS_KEY :> String(<<"r">>)) @@ (ABSOLUTE_ADDRESS_KEY :> Integer(16)) @@ (FUNCTIONS_KEY :> Array(bit_fields))

without_key(tbl, key) == [k \in DOMAIN tbl \ {key} |-> tbl[k]]

BitFields_ReadyReserved == <<BitField(<<"0">>, <<"r", "e", "a", "d", "y">>), ReservedBitField(<<"7", ":", "1">>)>>

BitFields_ModeReserved == <<BitField(<<"1", ":", "0">>, <<"m", "o", "d", "e">>), ReservedBitField(<<"7", ":", "2">>)>>

Register_StatusOk == RegisterTable(Str_STATUS, BitFields_ReadyReserved)

Register_StatusOverlap == RegisterTable(Str_STATUS, <<BitField(<<"3", ":", "0">>, <<"a">>), BitField(<<"4", ":", "1">>, <<"b">>)>>)

\* One unknown key and one pair of overlapping bit fields that cover the register.
Register_Faulty == RegisterTable(Str_CTRL, <<BitField(<<"7", ":", "0">>, <<"a">>), BitField(<<"3", ":", "0">>, <<"b">>)>>) @@ (UnknownKeyName :> Integer(1))

Register_NoName == without_key(Register_StatusOk, NAME_KEY)

Register_Defaults == without_key(without_key(RegisterTable(Str_CTRL, BitFields_ReadyReserved), SIZE_IN_BITS_KEY), ACCESS_KEY)

Register_EnumComplete == RegisterTable(Str_CTRL, BitFields_ReadyReserved) @@ (ENUMS_KEY :> Array(<<EnumTable(<<"e">>, <<"0">>, <<EnumValueTable(0, <<"o", "f", "f">>), EnumValueTable(1, <<"o", "n">>)>>)>>))

Register_EnumIncomplete == RegisterTable(Str_CTRL, BitFields_ModeReserved) @@ (ENUMS_KEY :> Array(<<EnumTable(<<"e">>, <<"1", ":", "0">>, <<EnumValueTable(0, <<"o", "f", "f">>), EnumValueTable(1, <<"o", "n">>)>>)>>))

Register_EnumDuplicate == RegisterTable(Str_CTRL, BitFields_ReadyReserved) @@ (ENUMS_KEY :> Array(<<EnumTable(<<"e">>, <<"0">>, <<EnumValueTable(0, <<"o", "f", "f">>), EnumValueTable(0, <<"o", "n">>)>>)>>))

RegisterTables == {Register_StatusOk, Register_StatusOverlap, Register_Faulty, Register_NoName, Register_Defaults, Register_EnumComplete, Register_EnumIncomplete, Register_EnumDuplicate}

\* The register tables that appear next to a sibling.
SiblingTables == {Register_StatusOk, Register_StatusOverlap, Register_Faulty, Register_EnumComplete}

\* toml arrays are homogeneous: arrays of register tables (every table
\* alone, the sibling tables in every order), or of integers.
RegisterArrays == {Array([n \in 1..Len(a) |-> Table(a[n])]) : a \in SeqsUpTo(RegisterTables, 1) \cup SeqsUpTo(SiblingTables, MaxRegisters)} \cup {Array([n \in 1..k |-> Integer(5)]) : k \in 1..MaxRegisters}

GroupValues == {Array(<<>>), Array(<<Table(Register_StatusOk)>>), Array(<<Table(Register_Faulty)>>), Array(<<Table(Register_EnumComplete)>>), Integer(5)}

GroupTables == {Table(t) : t \in UNION {[names -> GroupValues] : names \in SUBSET {"a", "b"}}}

Description_Minimal == (NAME_KEY :> String(<<"d">>)) @@ (VERSION_KEY :> String(VERSION_ZERO_ONE))

Description_Defaults == Description_Minimal @@ (DEFAULT_REGISTER_SIZE_KEY :> String(<<"1", "6">>)) @@ (DEFAULT_REGISTER_ACCESS_KEY :> String(<<"r", "w">>)) @@ (DESCRIPTION_KEY :> String(Str_text))

DescriptionValues == {Table(Description_Minimal), Table(Description_Defaults), Table(Description_Minimal @@ (EXTENSION_KEY :> String(EXTENSION_VGA))), Table(Description_Defaults @@ (UnknownKeyName :> Integer(1))), Table(without_key(Description_Defaults, NAME_KEY)), Table((VERSION_KEY :> String(<<"0", ".", "2">>)) @@ Description_Minimal), Table(Description_Minimal @@ (INDEX_SIZE_KEY :> Integer(8))), Integer(5)}

optional_entry(key, values) == {EmptyTable} \cup {key :> x : x \in values}

RootTables == {d @@ r @@ u : d \in optional_entry(REGISTER_DESCRIPTION_KEY, DescriptionValues), r \in optional_entry(REGISTER_KEY, RegisterArrays \cup GroupTables \cup {String(Str_text)}), u \in optional_entry(UnknownKeyName, {Integer(1)})}

(***************************************************************************)
(* State.                                                                  *)
(*   pc          position of the run                                       *)
(*   input       the argument of the run (the root table)                  *)
(*   v           the TableValidator of the running function, with the      *)
(*               ParserContextAndErrors it borrows                         *)
(*   parsed_file, groups   locals of check_root_table                      *)
(*   todo, array_pos, registers   position of the loops over the register  *)
(*               arrays and the local `registers` of handle_register_array *)
(*   result      the value returned                                        *)
(***************************************************************************)
VARIABLES pc, input, v, parsed_file, groups, todo, array_pos, registers, result

vars == <<pc, input, v, parsed_file, groups, todo, array_pos, registers, result>>

NoValidator == TableValidator_new(EmptyTable, "None", ParserContextAndErrors_default)

Init ==
    /\ pc = "start"
    /\ input \in RootTables
    /\ v = NoValidator
    /\ parsed_file = None
    /\ groups = <<>>
    /\ todo = <<>>
    /\ array_pos = 1
    /\ registers = <<>>
    /\ result = None

\* validation.rs:77-126 up to the loops: a failed description returns at once.
CheckRootTable ==
    /\ pc = "start"
    /\ \E rd \in {check_root_description(input)} :
        IF ~rd.r.ok
        THEN /\ pc' = "done"
             /\ v' = rd.v
             /\ result' = Err(drop(rd.v).errors)
             /\ UNCHANGED <<parsed_file, todo>>
        ELSE \E m \in {match_register_key(rd.v)} :
             /\ pc' = "registers"
             /\ v' = m.v
             /\ parsed_file' = Some(ParsedFile(rd.r.val))
             /\ todo' = m.todo
             /\ UNCHANGED result
    /\ UNCHANGED <<input, groups, array_pos, registers>>

in_array == pc = "registers" /\ todo # <<>> /\ Head(todo).val.kind = "Array"

\* handle_register_array, one iteration on a table (validation.rs:142-146).
ValidateRegisterTable ==
    /\ in_array
    /\ array_pos <= Len(Head(todo).val.a)
    /\ Head(todo).val.a[array_pos].kind = "Table"
    /\ \E r \in {validate_register_table(Head(todo).val.a[array_pos].t, unwrap(parsed_file).description, data_mut(v))} :
        /\ v' = with_data(v, r.data)
        /\ registers' = IF r.res.ok THEN Append(registers, r.res.val) ELSE registers
    /\ array_pos' = array_pos + 1
    /\ UNCHANGED <<pc, input, parsed_file, groups, todo, result>>

\* handle_register_array, one iteration on another value (validation.rs:147-149).
RegisterArrayInvalidType ==
    /\ in_array
    /\ array_pos <= Len(Head(todo).val.a)
    /\ Head(todo).val.a[array_pos].kind # "Table"
    /\ v' = value_validation_error(v, Msg("expected an array of tables, found: {:?},", <<>>))
    /\ array_pos' = array_pos + 1
    /\ UNCHANGED <<pc, input, parsed_file, groups, todo, registers, result>>

\* handle_register_array returns (validation.rs:152) to line 106 or 114.
RegisterArrayDone ==
    /\ in_array
    /\ array_pos > Len(Head(todo).val.a)
    /\ IF is_none(Head(todo).key)
       THEN /\ parsed_file' = Some([unwrap(parsed_file) EXCEPT !.registers = Some(Registers_OnlyRegisters(registers))])
            /\ UNCHANGED groups
       ELSE /\ groups' = Append(groups, <<unwrap(Head(todo).key), registers>>)
            /\ UNCHANGED parsed_file
    /\ todo' = Tail(todo)
    /\ array_pos' = 1
    /\ registers' = <<>>
    /\ UNCHANGED <<pc, input, v, result>>

\* A group whose value is not an array (validation.rs:116-118).
RegisterGroupInvalidType ==
    /\ pc = "registers"
    /\ todo # <<>>
    /\ Head(todo).val.kind # "Array"
    /\ v' = value_validation_error(v, Msg("validating register group '{}' failed: expected an array, found {:?}", <<>>))
    /\ todo' = Tail(todo)
    /\ UNCHANGED <<pc, input, parsed_file, groups, array_pos, registers, result>>

\* validation.rs:128-134.
ReturnResult ==
    /\ pc = "registers"
    /\ todo = <<>>
    /\ pc' = "done"
    /\ result' = root_result(v, unwrap(parsed_file))
    /\ UNCHANGED <<input, v, parsed_file, groups, todo, array_pos, registers>>

Next == CheckRootTable \/ ValidateRegisterTable \/ RegisterArrayInvalidType \/ RegisterArrayDone \/ RegisterGroupInvalidType \/ ReturnResult

Spec == Init /\ [][Next]_vars

(***************************************************************************)
(* validate_register_table on one register table (register.rs:500-576).    *)
(***************************************************************************)
RegisterDescription_Minimal == check_register_description(Description_Minimal, ParserContextAndErrors_default).res.val

RegisterDescription_Defaults == check_register_description(Description_Defaults, ParserContextAndErrors_default).res.val

EnumValueNames == <<<<"z", "e", "r", "o">>, <<"o", "n", "e">>, <<"t", "w", "o">>, <<"t", "h", "r", "e", "e">>>>

EnumValueTables == {EnumValueTable(n, EnumValueNames[n + 1]) : n \in 0..3}

BitFields_EnModeReserved == <<BitField(<<"0">>, <<"e", "n">>), BitField(<<"2", ":", "1">>, <<"m", "o", "d", "e">>), ReservedBitField(<<"7", ":", "3">>)>>

\* Enum ranges: a 1-bit field, a 2-bit field, a reserved field, no field.
EnumBits == {<<"0">>, <<"2", ":", "1">>, <<"7", ":", "3">>, <<"5">>}

EnumTables(max_values) == {EnumTable(<<"e">>, bit, values) : bit \in EnumBits, values \in SeqsUpTo(EnumValueTables, max_values)}

SecondEnumTables == {EnumTable(<<"f">>, bit, <<EnumValueTable(0, EnumValueNames[1]), EnumValueTable(1, EnumValueNames[2])>>) : bit \in EnumBits}

EnumArrays(max_values) == {<<e>> : e \in EnumTables(max_values)} \cup {<<e, f>> : e \in EnumTables(max_values), f \in SecondEnumTables}

\* A 65-bit field with an enum on it: max_value has no value for it.
Register_EnumWide == RegisterTable(Str_CTRL, <<BitField(<<"6", "4", ":", "0">>, <<"w">>)>>) @@ (ENUMS_KEY :> Array(<<EnumTable(<<"e">>, <<"6", "4", ":", "0">>, <<EnumValueTable(0, EnumValueNames[1])>>)>>))

RegisterInputs(max_values) == [tbl : RegisterTables \cup {Register_EnumWide} \cup {RegisterTable(Str_CTRL, BitFields_EnModeReserved) @@ (ENUMS_KEY :> Array(enum_tables)) : enum_tables \in EnumArrays(max_values)}, rd : {RegisterDescription_Minimal, RegisterDescription_Defaults}]

InitRegister ==
    /\ pc = "register"
    /\ input \in RegisterInputs(MaxEnumValues)
    /\ v = NoValidator
    /\ parsed_file = None
    /\ groups = <<>>
    /\ todo = <<>>
    /\ array_pos = 1
    /\ registers = <<>>
    /\ result = None

ValidateRegister ==
    /\ pc = "register"
    /\ pc' = "register_done"
    /\ result' = validate_register_table(input.tbl, input.rd, ParserContextAndErrors_default)
    /\ UNCHANGED <<input, v, parsed_file, groups, todo, array_pos, registers>>

NextRegister == ValidateRegister

SpecRegister == InitRegister /\ [][NextRegister]_vars

(***************************************************************************)
(* Register::check_functions on one parsed register (register.rs:275-356). *)
(***************************************************************************)
\* Bit positions at the two ends of a register of the given size.
BitPositions(size) == {0, 1, size - 1, size}

BitRanges(size) == {range \in {BitRange_new(msb, lsb) : msb \in BitPositions(size), lsb \in BitPositions(size)} : range.msb >= range.lsb}

RegisterFunctions(size) == {[range |-> range, status |-> FunctionStatus_Reserved] : range \in BitRanges(size)}

ParsedRegister(size, function_list) == [name |-> Str_CTRL, location |-> RegisterLocation("Absolute", 16), access_mode |-> "Read", size_in_bits |-> size, description |-> None, functions |-> function_list, enums |-> <<>>, index |-> None]

InitFunctions ==
    /\ pc = "functions"
    /\ \E size \in RegisterSizes : \E k \in 0..MaxFunctions : \E function_list \in [1..k -> RegisterFunctions(size)] : input = ParsedRegister(size, function_list)
    /\ v = TableValidator_new(EmptyTable, "Register", ParserContextAndErrors_default)
    /\ parsed_file = None
    /\ groups = <<>>
    /\ todo = <<>>
    /\ array_pos = 1
    /\ registers = <<>>
    /\ result = None

CheckFunctions ==
    /\ pc = "functions"
    /\ pc' = "functions_done"
    /\ v' = check_functions(input, v)
    /\ UNCHANGED <<input, parsed_file, groups, todo, array_pos, registers, result>>

NextFunctions == CheckFunctions

SpecFunctions == InitFunctions /\ [][NextFunctions]_vars

(***************************************************************************)
(* One entity validator on one table: check_register_description           *)
(* (register_description.rs:40-72), validate_register_table,               *)
(* validate_function_table, validate_enum_table and                        *)
(* validate_enum_value_table (register.rs:500-655).                        *)
(***************************************************************************)
restrict(tbl, keys) == [k \in DOMAIN tbl \cap keys |-> tbl[k]]

RegisterDescription_Vga == check_register_description(Description_Minimal @@ (EXTENSION_KEY :> String(EXTENSION_VGA)), ParserContextAndErrors_default).res.val

\* Every key a bit-field table can hold, and two keys it cannot.
FunctionTable_Full(reserved) == (BIT_KEY :> String(<<"0">>)) @@ (NAME_KEY :> String(<<"e", "n">>)) @@ (DESCRIPTION_KEY :> String(Str_text)) @@ (RESERVED_KEY :> Boolean(reserved)) @@ (UnknownKeyName :> Integer(1)) @@ (SIZE_IN_BITS_KEY :> String(<<"8">>))

FunctionTables == {restrict(FunctionTable_Full(reserved), keys) : reserved \in BOOLEAN, keys \in SUBSET {BIT_KEY, NAME_KEY, DESCRIPTION_KEY, RESERVED_KEY, UnknownKeyName, SIZE_IN_BITS_KEY}}

EnumValueTable_Full == (NAME_KEY :> String(<<"o", "n">>)) @@ (VALUE_KEY :> Integer(1)) @@ (DESCRIPTION_KEY :> String(Str_text)) @@ (UnknownKeyName :> Integer(1))

EnumValueTableKeySets == {restrict(EnumValueTable_Full, keys) : keys \in SUBSET DOMAIN EnumValueTable_Full}

EnumTable_Full == (NAME_KEY :> String(<<"e">>)) @@ (BIT_KEY :> String(<<"0">>)) @@ (DESCRIPTION_KEY :> String(Str_text)) @@ (VALUES_KEY :> Array(<<EnumValueTable(0, <<"o", "f", "f">>), Table(EnumValueTable_Full)>>)) @@ (UnknownKeyName :> Integer(1))

EnumTableKeySets == {restrict(EnumTable_Full, keys) : keys \in SUBSET DOMAIN EnumTable_Full}

Description_Full == Description_Defaults @@ (EXTENSION_KEY :> String(EXTENSION_VGA)) @@ (UnknownKeyName :> Integer(1))

DescriptionTableKeySets == {restrict(Description_Full, keys) : keys \in SUBSET {NAME_KEY, VERSION_KEY, DESCRIPTION_KEY, EXTENSION_KEY, UnknownKeyName}}

\* A register table with the three location keys (3, 16 and 4), its own
\* size and access mode, and one unknown key.
RegisterTable_Full == RegisterTable(Str_CTRL, BitFields_ReadyReserved) @@ (INDEX_KEY :> Integer(3)) @@ (RELATIVE_ADDRESS_KEY :> Integer(4)) @@ (UnknownKeyName :> Integer(1))

RegisterTableKeySets == {restrict(RegisterTable_Full, keys) : keys \in SUBSET {NAME_KEY, SIZE_IN_BITS_KEY, ACCESS_KEY, INDEX_KEY, ABSOLUTE_ADDRESS_KEY, RELATIVE_ADDRESS_KEY, FUNCTIONS_KEY, UnknownKeyName}}

Register_IndexOnly(n) == (INDEX_KEY :> Integer(n)) @@ restrict(RegisterTable_Full, {NAME_KEY, SIZE_IN_BITS_KEY, ACCESS_KEY, FUNCTIONS_KEY})

\* Location, size and access values that do not convert.
RegisterTableBadValues == {Register_IndexOnly(U16Max), Register_IndexOnly(U16Max + 1), Register_IndexOnly(0 - 1), (RELATIVE_ADDRESS_KEY :> String(Str_text)) @@ Register_StatusOk, (SIZE_IN_BITS_KEY :> String(<<"1", "2">>)) @@ Register_StatusOk, (ACCESS_KEY :> String(<<"x">>)) @@ Register_StatusOk, (SIZE_IN_BITS_KEY :> Integer(8)) @@ Register_StatusOk}

\* Children of a register: bit fields that parse (a on 3:0, b on 7:4,
\* reserved 7:4) and bit fields that do not (no `bit`, reserved with a
\* name, neither reserved nor named).
ChildBitFields == {BitField(<<"3", ":", "0">>, <<"a">>), BitField(<<"7", ":", "4">>, <<"b">>), ReservedBitField(<<"7", ":", "4">>), Table(NAME_KEY :> String(<<"c">>)), Table((RESERVED_KEY :> Boolean(TRUE)) @@ BitField(<<"7", ":", "4">>, <<"d">>).t), Table(BIT_KEY :> String(<<"7", ":", "4">>))}

\* Enum values that parse (0, 15, 15 again, 16) and that do not (no
\* `value`, no `name`).
ChildEnumValues == {EnumValueTable(0, EnumValueNames[1]), EnumValueTable(15, EnumValueNames[2]), EnumValueTable(15, EnumValueNames[3]), EnumValueTable(16, EnumValueNames[4]), Table(NAME_KEY :> String(<<"n">>)), Table(VALUE_KEY :> Integer(2))}

\* Enums that parse (e on 3:0, f on 7:4 with every list of two child
\* values) and that do not (no `bit`, no `values`).
ChildEnums == {EnumTable(<<"e">>, <<"3", ":", "0">>, <<EnumValueTable(0, EnumValueNames[1])>>), Table(NAME_KEY :> String(<<"g">>)), Table(without_key(EnumTable(<<"h">>, <<"7", ":", "4">>, <<>>).t, VALUES_KEY))} \cup {EnumTable(<<"f">>, <<"7", ":", "4">>, values) : values \in [1..2 -> ChildEnumValues]}

ChildRegisterTables(max_functions) ==
    {RegisterTable(Str_CTRL, bit_fields) : bit_fields \in SeqsUpTo(ChildBitFields, max_functions)}
    \cup {RegisterTable(Str_CTRL, <<BitField(<<"3", ":", "0">>, <<"a">>), BitField(<<"7", ":", "4">>, <<"b">>)>>) @@ (ENUMS_KEY :> Array(enum_tables)) : enum_tables \in SeqsUpTo(ChildEnums, 2)}

EntityKinds == {"description", "register", "function", "enum", "enum_value", "root"}

EntityTables(entity, max_functions) ==
    IF entity = "description" THEN DescriptionTableKeySets
    ELSE IF entity = "register" THEN RegisterTableKeySets \cup RegisterTableBadValues \cup ChildRegisterTables(max_functions)
    ELSE IF entity = "function" THEN FunctionTables
    ELSE IF entity = "enum" THEN EnumTableKeySets
    ELSE IF entity = "root" THEN RootTables
    ELSE EnumValueTableKeySets

EntityDescriptions(entity) == IF entity = "register" THEN {RegisterDescription_Minimal, RegisterDescription_Defaults, RegisterDescription_Vga} ELSE {RegisterDescription_Minimal}

InitEntity ==
    /\ pc \in EntityKinds
    /\ input \in [tbl : EntityTables(pc, MaxFunctions), rd : EntityDescriptions(pc)]
    /\ v = NoValidator
    /\ parsed_file = None
    /\ groups = <<>>
    /\ todo = <<>>
    /\ array_pos = 1
    /\ registers = <<>>
    /\ result = None

CheckRegisterDescription ==
    /\ pc = "description"
    /\ pc' = "description_done"
    /\ result' = check_register_description(input.tbl, ParserContextAndErrors_default)
    /\ UNCHANGED <<input, v, parsed_file, groups, todo, array_pos, registers>>

ValidateFunctionTable ==
    /\ pc = "function"
    /\ pc' = "function_done"
    /\ result' = validate_function_table(input.tbl, ParserContextAndErrors_default)
    /\ UNCHANGED <<input, v, parsed_file, groups, todo, array_pos, registers>>

ValidateEnumTable ==
    /\ pc = "enum"
    /\ pc' = "enum_done"
    /\ result' = validate_enum_table(input.tbl, ParserContextAndErrors_default)
    /\ UNCHANGED <<input, v, parsed_file, groups, todo, array_pos, registers>>

ValidateEnumValueTable ==
    /\ pc = "enum_value"
    /\ pc' = "enum_value_done"
    /\ result' = validate_enum_value_table(input.tbl, ParserContextAndErrors_default)
    /\ UNCHANGED <<input, v, parsed_file, groups, todo, array_pos, registers>>

\* check_root_table as one function (validation.rs:76-153): its Result and
\* the ParserContextAndErrors after the root validator was dropped.
RECURSIVE handle_register_array(_, _, _, _)

\* handle_register_array after validate_register_table returned r for
\* the first table.
handle_register_array_collect(register_array, w, description, register_list, r) == handle_register_array(Tail(register_array), with_data(w, r.data), description, IF r.res.ok THEN Append(register_list, r.res.val) ELSE register_list)

handle_register_array(register_array, w, description, register_list) ==
    IF register_array = <<>> THEN [registers |-> register_list, v |-> w]
    ELSE IF Head(register_array).kind = "Table" THEN the({handle_register_array_collect(register_array, w, description, register_list, r) : r \in {validate_register_table(Head(register_array).t, description, data_mut(w))}})
    ELSE handle_register_array(Tail(register_array), value_validation_error(w, Msg("expected an array of tables, found: {:?},", <<>>)), description, register_list)

RECURSIVE handle_register_groups(_, _, _)
handle_register_groups(entries, w, description) ==
    IF entries = <<>> THEN w
    ELSE IF Head(entries).val.kind = "Array" THEN the({handle_register_groups(Tail(entries), r.v, description) : r \in {handle_register_array(Head(entries).val.a, w, description, <<>>)}})
    ELSE handle_register_groups(Tail(entries), value_validation_error(w, Msg("validating register group '{}' failed: expected an array, found {:?}", <<>>)), description)

\* validation.rs:128-134 with the drop of the root validator.
check_root_table_finish(w, file) == Returned(root_result(w, file), drop(w))

\* validation.rs:103-107: the flat array of registers.
check_root_table_only_registers(r, rd) == check_root_table_finish(r.v, [ParsedFile(rd) EXCEPT !.registers = Some(Registers_OnlyRegisters(r.registers))])

\* validation.rs:101-126.
check_root_table_registers(m, rd) ==
    IF m.todo # <<>> /\ is_none(Head(m.todo).key)
    THEN the({check_root_table_only_registers(r, rd) : r \in {handle_register_array(Head(m.todo).val.a, m.v, rd, <<>>)}})
    ELSE the({check_root_table_finish(w, ParsedFile(rd)) : w \in {handle_register_groups(m.todo, m.v, rd)}})

\* validation.rs:85-99.
check_root_table_description(rd) ==
    IF ~rd.r.ok THEN Returned(Err(drop(rd.v).errors), drop(rd.v))
    ELSE the({check_root_table_registers(m, rd.r.val) : m \in {match_register_key(rd.v)}})

check_root_table(root) == the({check_root_table_description(rd) : rd \in {check_root_description(root)}})

CheckRootTableWhole ==
    /\ pc = "root"
    /\ pc' = "root_done"
    /\ result' = check_root_table(input.tbl)
    /\ UNCHANGED <<input, v, parsed_file, groups, todo, array_pos, registers>>

NextEntity == CheckRegisterDescription \/ ValidateRegister \/ ValidateFunctionTable \/ ValidateEnumTable \/ ValidateEnumValueTable \/ CheckRootTableWhole

SpecEntity == InitEntity /\ [][NextEntity]_vars

(***************************************************************************)
(* Code generation for one register and one bit field                      *)
(* (codegen/rust/register.rs:161-169, 220-271, 621-630, 820-870).          *)
(* The value of an unsigned integer of `size` bits is the set of the       *)
(* positions of its one bits; bits shifted beyond `size` are lost.         *)
(***************************************************************************)
Bits(size) == 0..(size - 1)

\* The bits of a u64 held as limbs, and of a small number.
limbs_bits(limbs) == {i \in 0..(16 * Len(limbs) - 1) : (limbs[(i \div 16) + 1] \div pow2(i % 16)) % 2 = 1}

number_bits(n) == {i \in 0..30 : (n \div pow2(i)) % 2 = 1}

shl(x, n, size) == {i + n : i \in x} \cap Bits(size)

shr(x, n) == {i - n : i \in {j \in x : j >= n}}

bit_and(x, y) == x \cap y

bit_or(x, y) == x \cup y

bit_not(x, size) == Bits(size) \ x

\* Register::contains_reserved_bit_fields with the `return true` moved out
\* of the `if`: the loop returns on the first bit field.
contains_reserved_bit_fields_of_first(self) == self.functions # <<>> /\ self.functions[1].status.reserved

contains_reserved_bit_fields(self) == \E n \in 1..Len(self.functions) : self.functions[n].status.reserved

\* The methods register_struct_impl pushes, by name, in its order.
register_struct_impl(r) ==
    (IF r.access_mode = "ReadWrite" THEN <<"modify">> ELSE <<>>)
    \o (IF r.access_mode \in {"Read", "ReadWrite"} THEN <<"read">> ELSE <<>>)
    \o (IF r.access_mode \in {"Write", "ReadWrite"} /\ ~contains_reserved_bit_fields(r) THEN <<"write">> ELSE <<>>)

\* bit_field_constants with the mask left at bit 0.
bit_field_constants_unshifted(range) == [MASK |-> limbs_bits(max_value(range).val), OFFSET |-> range.lsb]

\* The constants _MASK and _OFFSET of a bit field.
bit_field_constants(range) == [MASK |-> shl(limbs_bits(max_value(range).val), range.lsb, 64), OFFSET |-> range.lsb]

is_boolean(range) == bit_count(range) = 1

\* The `bits` method without `value & Self::_MASK`.
W_bits_unmasked(raw_bits, constants, written, size) == bit_or(bit_and(raw_bits, bit_not(constants.MASK, size)), shl(written, constants.OFFSET, size))

\* The generated `bits` method: the raw bits of W after the call.
W_bits(raw_bits, constants, written, size) == bit_or(bit_and(raw_bits, bit_not(constants.MASK, size)), bit_and(shl(written, constants.OFFSET, size), constants.MASK))

\* The generated `bit` method.
W_bit(raw_bits, constants, written, size) == IF written THEN bit_or(raw_bits, constants.MASK) ELSE bit_and(raw_bits, bit_not(constants.MASK, size))

FunctionStatuses == {FunctionStatus_Reserved, FunctionStatus_Normal(<<"a">>, None), FunctionStatus_Normal(<<"b">>, Some(Str_text))}

CodegenRegisters(max_functions) == {[ParsedRegister(8, [n \in 1..Len(statuses) |-> [range |-> BitRange_new(n - 1, n - 1), status |-> statuses[n]]]) EXCEPT !.access_mode = access_mode] : statuses \in SeqsUpTo(FunctionStatuses, max_functions), access_mode \in {"Read", "Write", "ReadWrite"}}

\* Bit fields inside a register of the given size.
FieldEnds(size) == {0, 1, 3, 4, 7, size - 2, size - 1}

FieldRanges(size) == {range \in {BitRange_new(msb, lsb) : msb \in FieldEnds(size), lsb \in FieldEnds(size)} : range.msb >= range.lsb}

\* Values to write: 0, 1, 3, 0xA5, the value with every bit set, and the
\* least value that does not fit the field.
FieldValues(size, range) == {number_bits(0), number_bits(1), number_bits(3), number_bits(165), Bits(size), {bit_count(range)} \cap Bits(size)}

RawBits(size) == {{}, Bits(size), {i \in Bits(size) : i % 2 = 0}, {i \in Bits(size) : i % 2 = 1}}

CodegenInputs(step, max_functions) ==
    IF step = "accessor" THEN CodegenRegisters(max_functions)
    ELSE IF step = "constants" THEN UNION {[size : {size}, range : FieldRanges(size)] : size \in RegisterSizes}
    ELSE IF step = "bits" THEN UNION {UNION {[size : {size}, range : {range}, value : FieldValues(size, range), raw_bits : RawBits(size)] : range \in {x \in FieldRanges(size) : ~is_boolean(x)}} : size \in RegisterSizes}
    ELSE UNION {[size : {size}, range : {x \in FieldRanges(size) : is_boolean(x)}, value : BOOLEAN, raw_bits : RawBits(size)] : size \in RegisterSizes}

(***************************************************************************)
(* The code generated for one non-reserved bit field and its enum          *)
(* (codegen/rust/register.rs:559-585, 641-771, 820-927, 973-988), as the   *)
(* list of the generated items and as what the generated methods compute.  *)
(***************************************************************************)
RECURSIVE first_enum_on(_, _)
first_enum_on(enums, range) ==
    IF enums = <<>> THEN None
    ELSE IF Head(enums).range = range THEN Some(Head(enums))
    ELSE first_enum_on(Tail(enums), range)

RECURSIVE normal_functions(_)
normal_functions(functions) ==
    IF functions = <<>> THEN <<>>
    ELSE (IF Head(functions).status.reserved THEN <<>> ELSE <<Head(functions)>>) \o normal_functions(Tail(functions))

bit_fields_and_enums(r) == [n \in 1..Len(normal_functions(r.functions)) |-> [bit_field |-> normal_functions(r.functions)[n], register_enum |-> first_enum_on(r.enums, normal_functions(r.functions)[n].range)]]

\* enum_type that looks only at the width of the field.
enum_type_by_width(self) == IF is_boolean(self.bit_field.range) THEN "ReservedBoolean" ELSE "ReservedNumber"

enum_type(self) ==
    IF is_some(self.register_enum) /\ unwrap(self.register_enum).all_possible_values_are_defined THEN "Complete"
    ELSE IF is_boolean(self.bit_field.range) THEN "ReservedBoolean"
    ELSE "ReservedNumber"

\* `*self as size` of a variant of a complete enum: the discriminant
\* `VARIANT = value` that variant_list gives it.
variant_as_unsigned(variant) == number_bits(variant.value)

\* to_register_value of a complete enum without the shift to the field.
to_register_value_unshifted(variant, constants, size) == variant_as_unsigned(variant)

\* The generated to_register_value of a complete enum.
to_register_value(variant, constants, size) == shl(variant_as_unsigned(variant), constants.OFFSET, size)

\* The `_ => unreachable!()` arm of from_register_value.
Unreachable == [value |-> 0, name |-> <<"unreachable!()">>, description |-> None]

\* The generated from_register_value of a complete enum: the first arm of
\* the match whose value is the field of the raw value.
from_register_value(register_enum, raw, constants) ==
    LET arms == {k \in 1..Len(register_enum.values) : number_bits(register_enum.values[k].value) = shr(bit_and(raw, constants.MASK), constants.OFFSET)}
    IN  IF arms = {} THEN Unreachable ELSE register_enum.values[CHOOSE k \in arms : \A m \in arms : k <= m]

\* The generated `variant` method of the write proxy: the raw bits of W
\* after the call.
W_variant(raw_bits, constants, variant, size) == bit_or(bit_and(raw_bits, bit_not(constants.MASK, size)), to_register_value(variant, constants, size))

\* Registers of a validated model: the registers validate_register_table
\* returns without a diagnostic.
FieldRegisterTables(max_values) == RegisterTables \cup {RegisterTable(Str_CTRL, BitFields_EnModeReserved) @@ (ENUMS_KEY :> Array(enum_tables)) : enum_tables \in EnumArrays(max_values)}

FieldRegisters(max_values) == {x.res.val : x \in {y \in {validate_register_table(tbl, RegisterDescription_Minimal, ParserContextAndErrors_default) : tbl \in FieldRegisterTables(max_values)} : y.res.ok /\ y.data.errors = <<>>}}

complete_fields(r) == {n \in 1..Len(bit_fields_and_enums(r)) : enum_type(bit_fields_and_enums(r)[n]) = "Complete"}

FieldInputs(step, max_values) ==
    IF step = "read_code" THEN UNION {[register : {r}, field : 1..Len(bit_fields_and_enums(r))] : r \in FieldRegisters(max_values)}
    ELSE UNION {UNION {[register : {r}, field : {n}, variant : 1..Len(unwrap(bit_fields_and_enums(r)[n].register_enum).values), raw_bits : RawBits(r.size_in_bits)] : n \in complete_fields(r)} : r \in FieldRegisters(max_values)}

CodegenSteps == {"accessor", "constants", "bits", "bit"}

FieldSteps == {"variant", "read_code"}

\* A call of the generated `variant` on a field with a complete enum, and
\* the read of the field from the raw value it leaves.
WriteVariant ==
    /\ pc = "variant"
    /\ pc' = "variant_done"
    /\ \E self \in {bit_fields_and_enums(input.register)[input.field]} :
       \E constants \in {bit_field_constants(self.bit_field.range)} :
       \E variant \in {unwrap(self.register_enum).values[input.variant]} :
       \E raw \in {W_variant(input.raw_bits, constants, variant, input.register.size_in_bits)} :
            result' = [variant |-> variant,
                       decoded |-> from_register_value(unwrap(self.register_enum), to_register_value(variant, constants, input.register.size_in_bits), constants),
                       raw_bits |-> raw,
                       read |-> from_register_value(unwrap(self.register_enum), raw, constants)]
    /\ UNCHANGED <<input, v, parsed_file, groups, todo, array_pos, registers>>

(***************************************************************************)
(* The capability bounds of the generated accessors                        *)
(* (codegen/rust.rs:49-85, 116-127, codegen/rust/register.rs:31-44,        *)
(* 135-159).  A bound `Trait<Group, size>` is the record of its three      *)
(* tokens.                                                                 *)
(***************************************************************************)
rust_unsigned_integer(size) == CASE size = 8 -> "u8" [] size = 16 -> "u16" [] size = 32 -> "u32" [] size = 64 -> "u64"

\* The two locations of a register the code generator reads.  The
\* validator builds one location; both directions use it unless an
\* addressing extension splits them.
read_location(self) == self.location

write_location(self) == self.location

io_trait(trait, group_type, size) == [trait |-> trait, group |-> group_type, size |-> size]

\* io_traits_rust that pushes the write trait for Write only.
io_traits_rust_write_only(self, group_type) ==
    (IF self.access_mode \in {"Read", "ReadWrite"}
     THEN <<io_trait(CASE read_location(self).kind = "Index" -> "RegisterIndexIoR" [] read_location(self).kind = "Absolute" -> "RegisterAbsIoR" [] read_location(self).kind = "Relative" -> "RegisterRelIoR", group_type, rust_unsigned_integer(self.size_in_bits))>>
     ELSE <<>>)
    \o (IF self.access_mode \in {"Write"}
        THEN <<io_trait(CASE write_location(self).kind = "Index" -> "RegisterIndexIoW" [] write_location(self).kind = "Absolute" -> "RegisterAbsIoW" [] write_location(self).kind = "Relative" -> "RegisterRelIoW", group_type, rust_unsigned_integer(self.size_in_bits))>>
        ELSE <<>>)

io_traits_rust(self, group_type) ==
    (IF self.access_mode \in {"Read", "ReadWrite"}
     THEN <<io_trait(CASE read_location(self).kind = "Index" -> "RegisterIndexIoR" [] read_location(self).kind = "Absolute" -> "RegisterAbsIoR" [] read_location(self).kind = "Relative" -> "RegisterRelIoR", group_type, rust_unsigned_integer(self.size_in_bits))>>
     ELSE <<>>)
    \o (IF self.access_mode \in {"Write", "ReadWrite"}
        THEN <<io_trait(CASE write_location(self).kind = "Index" -> "RegisterIndexIoW" [] write_location(self).kind = "Absolute" -> "RegisterAbsIoW" [] write_location(self).kind = "Relative" -> "RegisterRelIoW", group_type, rust_unsigned_integer(self.size_in_bits))>>
        ELSE <<>>)

\* The loop over io_trait of one register: a trait is pushed when the
\* HashSet did not hold it.
RECURSIVE push_unique(_, _)
push_unique(register_traits, io_traits) ==
    IF io_traits = <<>> THEN register_traits
    ELSE push_unique(IF \E k \in 1..Len(register_traits) : register_traits[k] = Head(io_traits) THEN register_traits ELSE Append(register_traits, Head(io_traits)), Tail(io_traits))

RECURSIVE type_bounds(_, _, _)
type_bounds(register_list, group_type, register_traits) ==
    IF register_list = <<>> THEN register_traits
    ELSE type_bounds(Tail(register_list), group_type, push_unique(register_traits, io_traits_rust(Head(register_list), group_type)))

\* register_group: the bound of the accessor struct `<Group>Registers<T>`
\* and the marker type it declares.
register_group(register_list, group_type, group_name) == [struct |-> <<group_name, "Registers">>, type_bounds |-> type_bounds(register_list, group_type, <<>>), marker |-> group_type]

\* inflections::case::to_pascal_case on the group names of the inputs.
to_pascal_case(key) == CASE key = "a" -> "A" [] key = "b" -> "B" [] key = "io" -> "Io"

\* The `groups` of convert_parsed_file_to_token_stream: one register_group
\* per group of the parsed file.
convert_parsed_file_groups(file_registers) ==
    IF file_registers = None THEN <<>>
    ELSE IF unwrap(file_registers).kind = "OnlyRegisters" THEN <<register_group(unwrap(file_registers).registers, <<"RegisterGroup">>, "")>>
    ELSE [n \in 1..Len(unwrap(file_registers).groups) |-> register_group(unwrap(file_registers).groups[n][2], <<to_pascal_case(unwrap(file_registers).groups[n][1]), "Group">>, to_pascal_case(unwrap(file_registers).groups[n][1]))]

\* Registers of every location kind and access mode, of 8 bits, and two of
\* 16 bits.
GroupRegisters == {[ParsedRegister(8, <<>>) EXCEPT !.access_mode = access_mode, !.location = RegisterLocation(kind, 16)] : access_mode \in {"Read", "Write", "ReadWrite"}, kind \in {"Index", "Absolute", "Relative"}}
    \cup {[ParsedRegister(16, <<>>) EXCEPT !.access_mode = access_mode, !.location = RegisterLocation("Index", 3)] : access_mode \in {"Read", "ReadWrite"}}

SecondGroups == {<<>>, <<[ParsedRegister(8, <<>>) EXCEPT !.access_mode = "Write", !.location = RegisterLocation("Relative", 4)]>>, <<[ParsedRegister(8, <<>>) EXCEPT !.access_mode = "ReadWrite", !.location = RegisterLocation("Index", 3)]>>}

GroupInputs(max_registers) ==
    {None}
    \cup {Some(Registers_OnlyRegisters(register_list)) : register_list \in SeqsUpTo(GroupRegisters, max_registers)}
    \cup {Some(Registers_Groups(<<<<"a", register_list>>>>)) : register_list \in SeqsUpTo(GroupRegisters, max_registers)}
    \cup {Some(Registers_Groups(<<<<"io", register_list>>, <<"b", second>>>>)) : register_list \in SeqsUpTo(GroupRegisters, max_registers), second \in SecondGroups}

GroupSteps == {"groups"}

\* The register groups of convert_parsed_file_to_token_stream.
ConvertParsedFileGroups ==
    /\ pc = "groups"
    /\ pc' = "groups_done"
    /\ result' = convert_parsed_file_groups(input)
    /\ UNCHANGED <<input, v, parsed_file, groups, todo, array_pos, registers>>

\* inflections::case on the names of the inputs, which are single words:
\* to_snake_case lowers every letter, to_constant_case raises every letter.
LowerCaseLetters == <<"a", "b", "c", "d", "e", "f", "g", "h", "i", "j", "k", "l", "m", "n", "o", "p", "q", "r", "s", "t", "u", "v", "w", "x", "y", "z">>

UpperCaseLetters == <<"A", "B", "C", "D", "E", "F", "G", "H", "I", "J", "K", "L", "M", "N", "O", "P", "Q", "R", "S", "T", "U", "V", "W", "X", "Y", "Z">>

letter_case(c, from, to) == IF \E k \in 1..Len(from) : from[k] = c THEN to[CHOOSE k \in 1..Len(from) : from[k] = c] ELSE c

to_snake_case(chars) == [k \in 1..Len(chars) |-> letter_case(chars[k], UpperCaseLetters, LowerCaseLetters)]

to_constant_case(chars) == [k \in 1..Len(chars) |-> letter_case(chars[k], LowerCaseLetters, UpperCaseLetters)]

\* RegisterEnumValue::variant_rust_name and is_method_rust_name.
variant_rust_name(enum_value) == to_constant_case(enum_value.name)

is_method_rust_name(enum_value) == <<"i", "s", "_">> \o to_snake_case(enum_value.name)

\* The variants of the generated enum: `VARIANT = value` for each value of
\* a complete enum, else the one variant `_Reserved(bool)` or
\* `_Reserved(size)`.
variant_list(self, register_size, only_complete_enum) ==
    IF is_some(self.register_enum) /\ unwrap(self.register_enum).all_possible_values_are_defined
    THEN [k \in 1..Len(unwrap(self.register_enum).values) |-> [variant |-> variant_rust_name(unwrap(self.register_enum).values[k]), discriminant |-> Some(unwrap(self.register_enum).values[k].value), holds |-> None]]
    ELSE IF only_complete_enum THEN <<>>
    ELSE IF is_boolean(self.bit_field.range) THEN <<[variant |-> <<"_", "R", "e", "s", "e", "r", "v", "e", "d">>, discriminant |-> None, holds |-> Some("bool")]>>
    ELSE <<[variant |-> <<"_", "R", "e", "s", "e", "r", "v", "e", "d">>, discriminant |-> None, holds |-> Some(register_size)]>>

\* The is_<name> methods of the read enum, each with what it compares.
is_variant_method_list(e, enum_type_of_field) ==
    [k \in 1..Len(e.values) |->
        [method |-> is_method_rust_name(e.values[k]),
         compare |-> CASE enum_type_of_field = "ReservedNumber" -> [with |-> "bits", bits |-> e.values[k].value, bit |-> FALSE, variant |-> <<>>]
                       [] enum_type_of_field = "ReservedBoolean" -> [with |-> "bit", bits |-> 0, bit |-> e.values[k].value = 1, variant |-> <<>>]
                       [] enum_type_of_field = "Complete" -> [with |-> "variant", bits |-> 0, bit |-> FALSE, variant |-> variant_rust_name(e.values[k])]]]

\* read_code: the read enum of a bit field (enum_item) and the is_<name>
\* methods of its impl (read_enum_impl).
read_code(self, register_size) ==
    [repr |-> IF enum_type(self) = "Complete" THEN Some(register_size) ELSE None,
     variants |-> variant_list(self, register_size, FALSE),
     is_methods |-> IF is_some(self.register_enum) THEN is_variant_method_list(unwrap(self.register_enum), enum_type(self)) ELSE <<>>]

\* The read code of one bit field of a register.
ReadCode ==
    /\ pc = "read_code"
    /\ pc' = "read_code_done"
    /\ result' = read_code(bit_fields_and_enums(input.register)[input.field], rust_unsigned_integer(input.register.size_in_bits))
    /\ UNCHANGED <<input, v, parsed_file, groups, todo, array_pos, registers>>

(***************************************************************************)
(* The generated `modify` of a ReadWrite register                          *)
(* (codegen/rust/register.rs:230-243) with the write proxies of its bit    *)
(* fields (lines 820-927): modify reads the register into R, copies the    *)
(* raw bits to W, runs the closure, which calls methods of the proxies on  *)
(* W, and writes the raw bits of W.  result holds the raw bits of R and   *)
(* of W and the fields whose proxies were called.                          *)
(***************************************************************************)
MaxCalls == 3

\* A set method of an enum that is not complete: `value << _OFFSET` is
\* not masked.
W_set(raw_bits, constants, variant, size) == bit_or(bit_and(raw_bits, bit_not(constants.MASK, size)), shl(number_bits(variant.value), constants.OFFSET, size))

\* The calls the proxy of a field offers (w_proxy_methods); set_bit and
\* clear_bit are bit(true) and bit(false), and the set methods of a
\* complete enum are `variant` with their variant.
w_proxy_methods(self, size) ==
    (IF is_boolean(self.bit_field.range) THEN [method : {"bit"}, value : BOOLEAN] ELSE [method : {"bits"}, value : {number_bits(0), number_bits(165), Bits(size)}])
    \cup (IF enum_type(self) = "Complete" THEN [method : {"variant"}, value : 1..Len(unwrap(self.register_enum).values)]
          ELSE IF is_some(self.register_enum) THEN [method : {"set"}, value : 1..Len(unwrap(self.register_enum).values)]
          ELSE {})

\* The raw bits of W after a call of a proxy method.
w_proxy_call(self, raw_bits, call, size) ==
    IF call.method = "bit" THEN W_bit(raw_bits, bit_field_constants(self.bit_field.range), call.value, size)
    ELSE IF call.method = "bits" THEN W_bits(raw_bits, bit_field_constants(self.bit_field.range), call.value, size)
    ELSE IF call.method = "variant" THEN W_variant(raw_bits, bit_field_constants(self.bit_field.range), unwrap(self.register_enum).values[call.value], size)
    ELSE W_set(raw_bits, bit_field_constants(self.bit_field.range), unwrap(self.register_enum).values[call.value], size)

\* ReadWrite registers of a validated model and the value the device
\* holds.
ModifyRegisters(max_values) == {x.res.val : x \in {y \in {validate_register_table((ACCESS_KEY :> String(<<"r", "w">>)) @@ tbl, RegisterDescription_Minimal, ParserContextAndErrors_default) : tbl \in FieldRegisterTables(max_values)} : y.res.ok /\ y.data.errors = <<>>}}

ModifyInputs(max_values) == UNION {[register : {r}, raw_bits : {{i \in Bits(r.size_in_bits) : i % 2 = 0}, {i \in Bits(r.size_in_bits) : i % 2 = 1}}] : r \in ModifyRegisters(max_values)}

ModifySteps == {"modify"}

\* `let r = self.read(); let mut w = W { raw_bits: r.raw_bits };`
ModifyRead ==
    /\ pc = "modify"
    /\ contains(register_struct_impl(input.register), "modify")
    /\ pc' = "closure"
    /\ result' = [r |-> input.raw_bits, w |-> input.raw_bits, called |-> {}]
    /\ UNCHANGED <<input, v, parsed_file, groups, todo, array_pos, registers>>

\* The closure calls a method of the proxy of a field.
ProxyCall ==
    /\ pc = "closure"
    /\ array_pos <= MaxCalls
    /\ \E n \in 1..Len(bit_fields_and_enums(input.register)) : \E call \in w_proxy_methods(bit_fields_and_enums(input.register)[n], input.register.size_in_bits) :
        result' = [result EXCEPT !.w = w_proxy_call(bit_fields_and_enums(input.register)[n], result.w, call, input.register.size_in_bits), !.called = @ \cup {n}]
    /\ array_pos' = array_pos + 1
    /\ UNCHANGED <<pc, input, v, parsed_file, groups, todo, registers>>

\* `self.io.write(Self::_W, w.raw_bits)`
ModifyWrite ==
    /\ pc = "closure"
    /\ pc' = "modify_done"
    /\ input' = [input EXCEPT !.raw_bits = result.w]
    /\ UNCHANGED <<v, parsed_file, groups, todo, array_pos, registers, result>>

InitCodegen ==
    /\ pc \in CodegenSteps \cup FieldSteps \cup GroupSteps \cup ModifySteps
    /\ input \in IF pc \in CodegenSteps THEN CodegenInputs(pc, MaxFunctions) ELSE IF pc \in FieldSteps THEN FieldInputs(pc, MaxEnumValues) ELSE IF pc \in ModifySteps THEN ModifyInputs(MaxEnumValues) ELSE GroupInputs(MaxRegisters)
    /\ v = NoValidator
    /\ parsed_file = None
    /\ groups = <<>>
    /\ todo = <<>>
    /\ array_pos = 1
    /\ registers = <<>>
    /\ result = None

RegisterStructImpl ==
    /\ pc = "accessor"
    /\ pc' = "accessor_done"
    /\ result' = register_struct_impl(input)
    /\ UNCHANGED <<input, v, parsed_file, groups, todo, array_pos, registers>>

BitFieldConstants ==
    /\ pc = "constants"
    /\ pc' = "constants_done"
    /\ result' = bit_field_constants(input.range)
    /\ UNCHANGED <<input, v, parsed_file, groups, todo, array_pos, registers>>

\* A call of the generated `bits` on a field that is wider than one bit.
WriteBits ==
    /\ pc = "bits"
    /\ pc' = "bits_done"
    /\ result' = W_bits(input.raw_bits, bit_field_constants(input.range), input.value, input.size)
    /\ UNCHANGED <<input, v, parsed_file, groups, todo, array_pos, registers>>

\* A call of the generated `bit` on a field of one bit.
WriteBit ==
    /\ pc = "bit"
    /\ pc' = "bit_done"
    /\ result' = W_bit(input.raw_bits, bit_field_constants(input.range), input.value, input.size)
    /\ UNCHANGED <<input, v, parsed_file, groups, todo, array_pos, registers>>

NextCodegen == RegisterStructImpl \/ BitFieldConstants \/ WriteBits \/ WriteBit \/ WriteVariant \/ ConvertParsedFileGroups \/ ReadCode \/ ModifyRead \/ ProxyCall \/ ModifyWrite

SpecCodegen == InitCodegen /\ [][NextCodegen]_vars

(***************************************************************************)
(* BitRange::bit_count and BitRange::max_value step by step at the width   *)
(* of each operation (register.rs:104-129): u32 values are two limbs, u64  *)
(* values four, and every operation tells whether it overflowed.           *)
(***************************************************************************)
RECURSIVE limbs_sub_borrow(_, _, _)
limbs_sub_borrow(a, b, borrow) ==
    IF a = <<>> THEN <<>>
    ELSE IF Head(a) - Head(b) - borrow >= 0 THEN <<Head(a) - Head(b) - borrow>> \o limbs_sub_borrow(Tail(a), Tail(b), 0)
    ELSE <<Head(a) - Head(b) - borrow + LimbBase>> \o limbs_sub_borrow(Tail(a), Tail(b), 1)

\* a - b, a + 1 and a - 1 at the width of a, wrapped, with the overflow.
limbs_sub(a, b) == [val |-> limbs_sub_borrow(a, b, 0), overflow |-> limbs_gt(b, a)]

limbs_checked_add_one(a) == [val |-> limbs_add_one(a), overflow |-> \A k \in 1..Len(a) : a[k] = LimbBase - 1]

limbs_checked_sub_one(a) == limbs_sub(a, [k \in 1..Len(a) |-> IF k = 1 THEN 1 ELSE 0])

\* 2u64.pow(exp): the power modulo 2^64, and whether it left the u64 range.
u64_pow2(exp) == [val |-> [k \in 1..4 |-> IF exp >= 16 * (k - 1) /\ exp < 16 * k THEN pow2(exp - 16 * (k - 1)) ELSE 0], overflow |-> exp >= 64]

\* `msb as u32 - lsb as u32 + 1` and NonZeroU32::new(..).unwrap().
BitRange_bit_count(self) ==
    LET difference == limbs_sub(widen(self.msb, 2), widen(self.lsb, 2))
        sum == limbs_checked_add_one(difference.val)
    IN  [val |-> sum.val, overflow |-> difference.overflow \/ sum.overflow, panics |-> sum.val = <<0, 0>>]

\* max_value without the branch for 64 bits.
BitRange_max_value_without_64(self) ==
    LET count == BitRange_bit_count(self)
        power == u64_pow2(count.val[1])
        less_one == limbs_checked_sub_one(power.val)
    IN  IF limbs_gt(count.val, widen(64, 2)) THEN [res |-> Err(Msg("bit range is larger than 64 bits", <<BitRange_fmt(self)>>)), overflow |-> count.overflow]
        ELSE [res |-> Ok(less_one.val), overflow |-> count.overflow \/ power.overflow \/ less_one.overflow]

BitRange_max_value(self) ==
    LET count == BitRange_bit_count(self)
        power == u64_pow2(count.val[1])
        less_one == limbs_checked_sub_one(power.val)
    IN  IF limbs_gt(count.val, widen(64, 2)) THEN [res |-> Err(Msg("bit range is larger than 64 bits", <<BitRange_fmt(self)>>)), overflow |-> count.overflow]
        ELSE IF count.val = widen(64, 2) THEN [res |-> Ok(u64_max_value), overflow |-> count.overflow]
        ELSE [res |-> Ok(less_one.val), overflow |-> count.overflow \/ power.overflow \/ less_one.overflow]

\* Ends of bit ranges over the whole of u16.
BitRangeEnds == {0, 1, 15, 16, 31, 32, 62, 63, 64, 65, U16Max - 1, U16Max}

\* BitRange::new panics unless msb >= lsb.
AllBitRanges == {range \in {BitRange_new(msb, lsb) : msb \in BitRangeEnds, lsb \in BitRangeEnds} : range.msb >= range.lsb}

InitBitRange ==
    /\ pc \in {"bit_count", "max_value"}
    /\ input \in AllBitRanges
    /\ v = NoValidator
    /\ parsed_file = None
    /\ groups = <<>>
    /\ todo = <<>>
    /\ array_pos = 1
    /\ registers = <<>>
    /\ result = None

BitCount ==
    /\ pc = "bit_count"
    /\ pc' = "bit_count_done"
    /\ result' = BitRange_bit_count(input)
    /\ UNCHANGED <<input, v, parsed_file, groups, todo, array_pos, registers>>

MaxValue ==
    /\ pc = "max_value"
    /\ pc' = "max_value_done"
    /\ result' = BitRange_max_value(input)
    /\ UNCHANGED <<input, v, parsed_file, groups, todo, array_pos, registers>>

NextBitRange == BitCount \/ MaxValue

SpecBitRange == InitBitRange /\ [][NextBitRange]_vars

(***************************************************************************)
(* The register editor (src/src/ui/validate.rs, editor.rs, object.rs).     *)
(* A document is the sequence of its lines; a line is a record of its      *)
(* tokens, with keys of headers and literals as sequences of characters.   *)
(* toml::from_str is the parser of the toml crate, modelled on the lines   *)
(* the editor writes: `[table]` and `[[array]]` headers with dotted keys,  *)
(* `key = literal` pairs, and arrays of inline tables.                     *)
(***************************************************************************)
Line(kind, header, key, literal, pairs) == [line |-> kind, header |-> header, key |-> key, literal |-> literal, pairs |-> pairs]

\* `[header]`
Line_Table(header) == Line("table", header, "", <<>>, <<>>)

\* `[[header]]`
Line_ArrayOfTables(header) == Line("array_of_tables", header, "", <<>>, <<>>)

\* `key = literal`
Line_Pair(key, literal) == Line("pair", <<>>, key, literal, <<>>)

\* `key = [`
Line_ArrayOpen(key) == Line("array_open", <<>>, key, <<>>, <<>>)

\* `    { key = literal, key = literal },`
Line_InlineTable(pairs) == Line("inline_table", <<>>, "", <<>>, pairs)

\* `]`
Line_ArrayClose == Line("array_close", <<>>, "", <<>>, <<>>)

Pair(key, literal) == [key |-> key, literal |-> literal]

\* `"{}"`
quoted(chars) == <<"\"">> \o chars \o <<"\"">>

\* str::trim for texts whose only white space is the blank.
RECURSIVE trim_start(_)
trim_start(chars) == IF chars # <<>> /\ Head(chars) = " " THEN trim_start(Tail(chars)) ELSE chars

RECURSIVE trim_end(_)
trim_end(chars) == IF chars # <<>> /\ chars[Len(chars)] = " " THEN trim_end(SubSeq(chars, 1, Len(chars) - 1)) ELSE chars

trim(chars) == trim_end(trim_start(chars))

RECURSIVE to_key(_)
to_key(chars) == IF chars = <<>> THEN "" ELSE Head(chars) \o to_key(Tail(chars))

\* A decimal literal of at most five digits, the size of the numbers in
\* the documents.
RECURSIVE decimal_value(_, _)
decimal_value(chars, acc) == IF chars = <<>> THEN acc ELSE decimal_value(Tail(chars), acc * 10 + digit_value(Head(chars)))

is_decimal(chars) == chars # <<>> /\ Len(chars) <= 5 /\ (\A k \in 1..Len(chars) : is_digit(chars[k])) /\ (Len(chars) = 1 \/ chars[1] # "0")

is_basic_string(chars) == Len(chars) >= 2 /\ chars[1] = "\"" /\ chars[Len(chars)] = "\"" /\ \A k \in 2..(Len(chars) - 1) : chars[k] \notin {"\"", "\\", "\n"}

\* The value of a literal: a basic string, a boolean or a decimal integer.
parse_literal(chars) ==
    IF is_basic_string(chars) THEN Ok(String(SubSeq(chars, 2, Len(chars) - 1)))
    ELSE IF chars = <<"t", "r", "u", "e">> THEN Ok(Boolean(TRUE))
    ELSE IF chars = <<"f", "a", "l", "s", "e">> THEN Ok(Boolean(FALSE))
    ELSE IF is_decimal(chars) THEN Ok(Integer(decimal_value(chars, 0)))
    ELSE Err(Msg("invalid value", <<chars>>))

BareKeyChars == {"a", "b", "c", "d", "e", "f", "g", "h", "i", "j", "k", "l", "m", "n", "o", "p", "q", "r", "s", "t", "u", "v", "w", "x", "y", "z", "A", "B", "C", "D", "E", "F", "G", "H", "I", "J", "K", "L", "M", "N", "O", "P", "Q", "R", "S", "T", "U", "V", "W", "X", "Y", "Z", "0", "1", "2", "3", "4", "5", "6", "7", "8", "9", "_", "-"}

\* A dotted key: its bare keys, or an error.  The tokens of a header are
\* the key constants the editor writes, dots, and the characters of the
\* group.
is_bare_key(piece) == piece # <<>> /\ \A k \in 1..Len(piece) : piece[k] \in BareKeyChars \cup {REGISTER_KEY, REGISTER_DESCRIPTION_KEY, ENUMS_KEY}

parse_dotted_key(header) ==
    IF \A k \in 1..Len(split(header, ".")) : is_bare_key(split(header, ".")[k])
    THEN Ok([k \in 1..Len(split(header, ".")) |-> to_key(split(header, ".")[k])])
    ELSE Err(Msg("invalid table header", <<header>>))

\* The table of a sequence of pairs: a duplicate key or an invalid
\* literal is an error.
RECURSIVE pairs_table(_, _)
pairs_table(pairs, tbl) ==
    IF pairs = <<>> THEN Ok(tbl)
    ELSE IF Head(pairs).key \in DOMAIN tbl THEN Err(Msg("duplicate key", <<>>))
    ELSE IF ~parse_literal(Head(pairs).literal).ok THEN parse_literal(Head(pairs).literal)
    ELSE pairs_table(Tail(pairs), tbl @@ (Head(pairs).key :> parse_literal(Head(pairs).literal).val))

with_entry(tbl, key, x) == (key :> x) @@ tbl

last_table(a) == a[Len(a)].t

with_last_table(a, tbl) == [a EXCEPT ![Len(a)] = Table(tbl)]

\* The table a header path names: through tables and through the last
\* element of arrays of tables.
RECURSIVE table_at(_, _)
table_at(tbl, path) ==
    IF path = <<>> THEN tbl
    ELSE IF tbl[Head(path)].kind = "Table" THEN table_at(tbl[Head(path)].t, Tail(path))
    ELSE table_at(last_table(tbl[Head(path)].a), Tail(path))

RECURSIVE with_table_at(_, _, _)
with_table_at(tbl, path, new) ==
    IF path = <<>> THEN new
    ELSE IF tbl[Head(path)].kind = "Table" THEN with_entry(tbl, Head(path), Table(with_table_at(tbl[Head(path)].t, Tail(path), new)))
    ELSE with_entry(tbl, Head(path), Array(with_last_table(tbl[Head(path)].a, with_table_at(last_table(tbl[Head(path)].a), Tail(path), new))))

is_array_of_tables(x) == x.kind = "Array" /\ x.a # <<>> /\ x.a[Len(x.a)].kind = "Table"

\* `[[path]]`: a new table at the end of the array the path names.
RECURSIVE append_table(_, _)
append_table_inner(sub, tbl, path) == IF sub.ok THEN Ok(with_entry(tbl, Head(path), Table(sub.val))) ELSE sub

append_table_inner_last(sub, tbl, path) == IF sub.ok THEN Ok(with_entry(tbl, Head(path), Array(with_last_table(tbl[Head(path)].a, sub.val)))) ELSE sub

append_table(tbl, path) ==
    IF Len(path) = 1 THEN
            IF Head(path) \notin DOMAIN tbl THEN Ok(with_entry(tbl, Head(path), Array(<<Table(EmptyTable)>>)))
            ELSE IF is_array_of_tables(tbl[Head(path)]) THEN Ok(with_entry(tbl, Head(path), Array(Append(tbl[Head(path)].a, Table(EmptyTable)))))
            ELSE Err(Msg("duplicate key", <<>>))
        ELSE IF Head(path) \notin DOMAIN tbl THEN append_table_inner(append_table(EmptyTable, Tail(path)), tbl, path)
        ELSE IF tbl[Head(path)].kind = "Table" THEN append_table_inner(append_table(tbl[Head(path)].t, Tail(path)), tbl, path)
        ELSE IF is_array_of_tables(tbl[Head(path)]) THEN append_table_inner_last(append_table(last_table(tbl[Head(path)].a), Tail(path)), tbl, path)
        ELSE Err(Msg("duplicate key", <<>>))

\* `[path]` of one key, as the documents have it.
define_table(tbl, path) == IF Len(path) = 1 /\ Head(path) \notin DOMAIN tbl THEN Ok(with_entry(tbl, Head(path), Table(EmptyTable))) ELSE Err(Msg("duplicate key", <<>>))

\* The parser after a prefix of the lines: the root table, the path of
\* the current table, and the open array with its elements.
ParserState(root, path, open, elements) == [root |-> root, path |-> path, open |-> open, elements |-> elements]

parse_line_headed(path, root) == IF ~path.ok THEN path ELSE IF ~root.ok THEN root ELSE Ok(ParserState(root.val, path.val, None, <<>>))

parse_line_put(x, st, l) == IF ~x.ok THEN x
          ELSE IF l.key \in DOMAIN table_at(st.root, st.path) THEN Err(Msg("duplicate key", <<>>))
          ELSE Ok(ParserState(with_table_at(st.root, st.path, with_entry(table_at(st.root, st.path), l.key, x.val)), st.path, None, <<>>))

parse_line_element(tbl, st) == IF ~tbl.ok THEN tbl ELSE Ok([st EXCEPT !.elements = Append(@, Table(tbl.val))])

parse_line(st, l) ==
    IF is_some(st.open) THEN
            IF l.line = "inline_table" THEN parse_line_element(pairs_table(l.pairs, EmptyTable), st)
            ELSE IF l.line = "array_close" THEN
                IF unwrap(st.open) \in DOMAIN table_at(st.root, st.path) THEN Err(Msg("duplicate key", <<>>))
                ELSE Ok(ParserState(with_table_at(st.root, st.path, with_entry(table_at(st.root, st.path), unwrap(st.open), Array(st.elements))), st.path, None, <<>>))
            ELSE Err(Msg("expected a table or the end of the array", <<>>))
        ELSE IF l.line = "table" THEN parse_line_headed(parse_dotted_key(l.header), IF parse_dotted_key(l.header).ok THEN define_table(st.root, parse_dotted_key(l.header).val) ELSE ErrUnit)
        ELSE IF l.line = "array_of_tables" THEN parse_line_headed(parse_dotted_key(l.header), IF parse_dotted_key(l.header).ok THEN append_table(st.root, parse_dotted_key(l.header).val) ELSE ErrUnit)
        ELSE IF l.line = "pair" THEN parse_line_put(parse_literal(l.literal), st, l)
        ELSE IF l.line = "array_open" THEN Ok([st EXCEPT !.open = Some(l.key)])
        ELSE Err(Msg("unexpected line", <<>>))

RECURSIVE parse_lines(_, _)
parse_lines(st, lines) ==
    IF lines = <<>> THEN (IF is_some(st.open) THEN Err(Msg("unterminated array", <<>>)) ELSE Ok(st.root))
    ELSE the({IF r.ok THEN parse_lines(r.val, Tail(lines)) ELSE r : r \in {parse_line(st, Head(lines))}})

\* toml::from_str: the root table of a document, or the parse error.
toml_from_str(document) == parse_lines(ParserState(EmptyTable, <<>>, None, <<>>), document)

\* The objects of the editor (object.rs:61-218): each field is the text or
\* the value it holds.
UiFunction_new_with_values(bit, reserved, fname, description) == [bit |-> bit, reserved |-> reserved, name |-> fname, description |-> description]

UiFunction_new_reserved(bit) == UiFunction_new_with_values(bit, TRUE, <<>>, <<>>)

UiEnumValue(number, vname, description) == [value |-> number, name |-> vname, description |-> description]

UiEnum(ename, bit, description, enum_values) == [name |-> ename, bit |-> bit, description |-> description, values |-> enum_values]

UiRegister_new == [name |-> <<>>, location |-> <<>>, description |-> <<>>, group |-> <<>>, location_mode |-> "Index", access |-> "ReadWrite", size |-> 8, functions |-> <<>>, enums |-> <<>>]

AccessMode_fmt(access) == CASE access = "Read" -> <<"r">> [] access = "Write" -> <<"w">> [] access = "ReadWrite" -> <<"r", "w">>

\* validate.rs:143-168.
string_field(key, field) == IF trim(field) # <<>> THEN <<Line_Pair(key, quoted(trim(field)))>> ELSE <<>>

number_or_boolean_field(key, field) == IF trim(field) # <<>> THEN <<Line_Pair(key, trim(field))>> ELSE <<>>

register_size_field(size) == number_or_boolean_field(SIZE_IN_BITS_KEY, RegisterSize_fmt(size))

register_access_field(access) == <<Line_Pair(ACCESS_KEY, quoted(AccessMode_fmt(access)))>>

\* The line of one bit field and of one enum value (validate.rs:66-76, 87-93).
function_line(f) ==
    Line_InlineTable(<<Pair(BIT_KEY, quoted(trim(f.bit)))>>
        \o (IF f.reserved THEN <<Pair(RESERVED_KEY, <<"t", "r", "u", "e">>)>> ELSE <<Pair(NAME_KEY, quoted(trim(f.name)))>>)
        \o (IF trim(f.description) # <<>> THEN <<Pair(DESCRIPTION_KEY, quoted(trim(f.description)))>> ELSE <<>>))

enum_value_line(x) ==
    Line_InlineTable(<<Pair(VALUE_KEY, trim(x.value)), Pair(NAME_KEY, quoted(trim(x.name)))>>
        \o (IF trim(x.description) # <<>> THEN <<Pair(DESCRIPTION_KEY, quoted(trim(x.description)))>> ELSE <<>>))

enum_lines(e, group) ==
    <<Line_ArrayOfTables(<<REGISTER_KEY>> \o group \o <<".", ENUMS_KEY>>)>>
    \o string_field(NAME_KEY, e.name) \o string_field(DESCRIPTION_KEY, e.description) \o string_field(BIT_KEY, e.bit)
    \o <<Line_ArrayOpen(VALUES_KEY)>> \o [k \in 1..Len(e.values) |-> enum_value_line(e.values[k])] \o <<Line_ArrayClose>>

RECURSIVE enums_lines(_, _)
enums_lines(enum_list, group) == IF enum_list = <<>> THEN <<>> ELSE enum_lines(Head(enum_list), group) \o enums_lines(Tail(enum_list), group)

is_groups(register_file) == is_some(register_file.registers) /\ unwrap(register_file.registers).kind = "Groups"

convert_to_toml(register, register_file) ==
    LET group == IF is_groups(register_file) THEN <<".">> \o trim(register.group) ELSE <<>>
    IN  <<Line_ArrayOfTables(<<REGISTER_KEY>> \o group)>>
        \o string_field(NAME_KEY, register.name)
        \o string_field(DESCRIPTION_KEY, register.description)
        \o number_or_boolean_field(CASE register.location_mode = "Index" -> INDEX_KEY [] register.location_mode = "Relative" -> RELATIVE_ADDRESS_KEY [] register.location_mode = "Absolute" -> ABSOLUTE_ADDRESS_KEY, register.location)
        \o (IF register_file.description.default_register_access # Some(register.access) THEN register_access_field(register.access) ELSE <<>>)
        \o (IF register_file.description.default_register_size_in_bits # Some(register.size) THEN register_size_field(register.size) ELSE <<>>)
        \o <<Line_ArrayOpen(FUNCTIONS_KEY)>> \o [k \in 1..Len(register.functions) |-> function_line(register.functions[k])] \o <<Line_ArrayClose>>
        \o enums_lines(register.enums, group)

\* What the file system does with the append: the open fails, or
\* write_all writes everything, or it fails after a part of the bytes
\* (here the first line) or before any.
IoOutcomes == {[open |-> FALSE, write_all |-> "nothing"]} \cup [open : {TRUE}, write_all : {"all", "part", "nothing"}]

written(new_toml, io) == IF io.write_all = "all" THEN new_toml ELSE IF io.write_all = "part" THEN SubSeq(new_toml, 1, 1) ELSE <<>>

SaveResult(r, register_file_raw, file, new_toml) == [r |-> r, register_file_raw |-> register_file_raw, file |-> file, new_toml |-> new_toml]

\* validate.rs:135-138: the append to the file and the update of the raw
\* text.
validate_and_save_write(register_file_raw, file, new_toml, io) ==
    IF ~io.open THEN SaveResult(Err(Msg("open", <<>>)), register_file_raw, file, new_toml)
    ELSE IF io.write_all # "all" THEN SaveResult(Err(Msg("write_all", <<>>)), register_file_raw, file \o written(new_toml, io), new_toml)
    ELSE SaveResult(Ok(<<>>), register_file_raw \o new_toml, file \o new_toml, new_toml)

Validated(r, new_toml) == [r |-> r, new_toml |-> new_toml]

\* validate.rs:120-131: r is the Result of check_root_table.
validate_check(new_toml, r) == Validated(IF ~r.ok THEN Err(Msg("check_root_table", r.error)) ELSE Ok(<<>>), new_toml)

\* validate.rs:119-120: root_table is the Result of toml::from_str.
validate_parsed(new_toml, root_table) ==
    IF ~root_table.ok THEN Validated(Err(Msg("toml::from_str", <<>>)), new_toml)
    ELSE the({validate_check(new_toml, r) : r \in {check_root_table(root_table.val).res}})

\* validate.rs:116-119.
validate_converted(register_file_raw, new_toml) == the({validate_parsed(new_toml, root_table) : root_table \in {toml_from_str(register_file_raw \o new_toml)}})

\* validate.rs:114-131, the part of validate_and_save_ui_register before
\* the file is opened: the fragment and the Result of its validation.
validate_ui_register(register, register_file, register_file_raw) == the({validate_converted(register_file_raw, new_toml) : new_toml \in {convert_to_toml(register, register_file)}})

\* validate.rs:131-140 after the validation returned c.
validate_and_save_validated(register_file_raw, file, io, c) ==
    IF c.r.ok THEN validate_and_save_write(register_file_raw, file, c.new_toml, io) ELSE SaveResult(c.r, register_file_raw, file, c.new_toml)

\* validate_and_save_ui_register (validate.rs:107-141): its Result, the
\* raw text and the file after it, and the fragment it built.
validate_and_save_ui_register(register, register_file, register_file_raw, file, io) ==
    the({validate_and_save_validated(register_file_raw, file, io, c) : c \in {validate_ui_register(register, register_file, register_file_raw)}})

\* object.rs:21-27, 73-100: the validators of the fields save_register
\* validates.
error_if_empty(field) == IF trim(field) = <<>> THEN Err(Msg("Field '{}' is empty.", <<>>)) ELSE Ok(field)

register_fields_validate(register, register_file) ==
    IF ~error_if_empty(register.name).ok THEN error_if_empty(register.name)
    ELSE IF ~error_if_empty(register.location).ok THEN error_if_empty(register.location)
    ELSE IF is_groups(register_file) /\ ~error_if_empty(register.group).ok THEN error_if_empty(register.group)
    ELSE Ok(<<>>)

\* The `r.*.reset()` calls of save_register (editor.rs:115-127).
reset_register(register) == [register EXCEPT !.name = <<>>, !.location = <<>>, !.description = <<>>, !.access = "ReadWrite", !.size = 8, !.functions = <<>>, !.enums = <<>>]

\* editor.rs:113-133: s is what validate_and_save_ui_register returned.
save_register_saved(data, next_register, s) == [data |-> [data EXCEPT !.register_file_raw = s.register_file_raw, !.file = s.file, !.register = IF s.r.ok /\ next_register THEN reset_register(@) ELSE @], save |-> s]

\* save_register (editor.rs:93-136) on the editor data.
save_register(data, next_register, io) ==
    IF ~register_fields_validate(data.register, data.register_file).ok
    THEN [data |-> data, save |-> SaveResult(Err(Msg("field", <<>>)), data.register_file_raw, data.file, <<>>)]
    ELSE the({save_register_saved(data, next_register, s) : s \in {validate_and_save_ui_register(data.register, data.register_file, data.register_file_raw, data.file, io)}})

\* fill_empty_register_fields_as_reserved without the field after the
\* loop.
RECURSIVE fill_loop_without_last_gap(_, _, _, _)
fill_loop_without_last_gap(bit_fields, new_fields, current_msb, end_reached) ==
    LET ranged(range) ==
            IF ~range.ok THEN Err(range.error)
            ELSE fill_loop_without_last_gap(Tail(bit_fields),
                    (IF current_msb > range.val.msb THEN Append(new_fields, UiFunction_new_reserved(BitRange_fmt(BitRange_new(current_msb, range.val.msb + 1)))) ELSE new_fields) \o <<Head(bit_fields)>>,
                    IF range.val.lsb = 0 THEN current_msb ELSE range.val.lsb - 1,
                    range.val.lsb = 0 \/ current_msb < range.val.msb)
    IN  IF bit_fields = <<>> THEN Ok(new_fields)
        ELSE IF end_reached THEN fill_loop_without_last_gap(Tail(bit_fields), Append(new_fields, Head(bit_fields)), current_msb, end_reached)
        ELSE ranged(BitRange_try_from(trim(Head(bit_fields).bit)))

\* The loop of fill_empty_register_fields_as_reserved and the field after
\* it (editor.rs:145-174): Ok(new_fields), or the error of `?`.
RECURSIVE fill_loop(_, _, _, _)
fill_loop(bit_fields, new_fields, current_msb, end_reached) ==
    LET ranged(range) ==
            IF ~range.ok THEN Err(range.error)
            ELSE fill_loop(Tail(bit_fields),
                    (IF current_msb > range.val.msb THEN Append(new_fields, UiFunction_new_reserved(BitRange_fmt(BitRange_new(current_msb, range.val.msb + 1)))) ELSE new_fields) \o <<Head(bit_fields)>>,
                    IF range.val.lsb = 0 THEN current_msb ELSE range.val.lsb - 1,
                    range.val.lsb = 0 \/ current_msb < range.val.msb)
    IN  IF bit_fields = <<>> THEN Ok(IF end_reached THEN new_fields ELSE Append(new_fields, UiFunction_new_reserved(BitRange_fmt(BitRange_new(current_msb, 0)))))
        ELSE IF end_reached THEN fill_loop(Tail(bit_fields), Append(new_fields, Head(bit_fields)), current_msb, end_reached)
        ELSE ranged(BitRange_try_from(trim(Head(bit_fields).bit)))

\* fill_empty_register_fields_as_reserved (editor.rs:138-183): the bit
\* fields of the register after it.
fill_empty_register_fields_as_reserved(register) ==
    LET filled(r) == IF r.ok THEN r.val ELSE register.functions
    IN  filled(fill_loop(register.functions, <<>>, register.size - 1, FALSE))

(***************************************************************************)
(* The editor as a state machine.  input is the EditorData (the register   *)
(* of the view, the validated file, its raw text) with the file on disk;   *)
(* parsed_file is the document the editor was opened with, registers the   *)
(* fragments of the saves that returned Ok, array_pos the number of save   *)
(* attempts, result what the last operation started from and returned.     *)
(***************************************************************************)
MaxSaves == 2

Document_description(defaults) == <<Line_Table(<<REGISTER_DESCRIPTION_KEY>>), Line_Pair(NAME_KEY, quoted(<<"d">>)), Line_Pair(VERSION_KEY, quoted(VERSION_ZERO_ONE))>> \o defaults

Document_defaults(size, access) == Document_description(<<Line_Pair(DEFAULT_REGISTER_SIZE_KEY, quoted(size)), Line_Pair(DEFAULT_REGISTER_ACCESS_KEY, quoted(access))>>)

Document_register(header) == <<Line_ArrayOfTables(header), Line_Pair(NAME_KEY, quoted(<<"S", "R">>)), Line_Pair(ABSOLUTE_ADDRESS_KEY, <<"1">>), Line_Pair(ACCESS_KEY, quoted(<<"r">>)), Line_Pair(SIZE_IN_BITS_KEY, quoted(<<"8">>)), Line_ArrayOpen(FUNCTIONS_KEY), Line_InlineTable(<<Pair(BIT_KEY, quoted(<<"7", ":", "0">>)), Pair(RESERVED_KEY, <<"t", "r", "u", "e">>)>>), Line_ArrayClose>>

Documents ==
    { Document_description(<<>>),
      Document_defaults(<<"8">>, <<"r", "w">>),
      Document_defaults(<<"1", "6">>, <<"r">>),
      Document_defaults(<<"8">>, <<"r", "w">>) \o Document_register(<<REGISTER_KEY>>),
      Document_description(<<>>) \o Document_register(<<REGISTER_KEY, ".", "a">>) }

\* The editor after it loaded a document (logic.rs:33-67): only a
\* document that parses and passes check_root_table is opened.
EditorData_checked(document, r) == IF r.ok THEN Some([register |-> UiRegister_new, register_file |-> r.val, register_file_raw |-> document, file |-> document]) ELSE None

EditorData_parsed(document, root_table) == IF root_table.ok THEN the({EditorData_checked(document, r) : r \in {check_root_table(root_table.val).res}}) ELSE None

EditorData_open(document) == the({EditorData_parsed(document, root_table) : root_table \in {toml_from_str(document)}})

is_valid_document(document) == is_some(EditorData_open(document))

BaseRegister == [UiRegister_new EXCEPT !.name = <<"C", "T", "R", "L">>, !.location = <<"1", "6">>, !.location_mode = "Absolute", !.functions = <<UiFunction_new_with_values(<<"7", ":", "0">>, FALSE, <<"a">>, <<>>)>>]

EditorRegisters ==
    { UiRegister_new, BaseRegister,
      [BaseRegister EXCEPT !.name = <<" ">>],
      [BaseRegister EXCEPT !.name = <<"A", "\"", "B">>],
      [BaseRegister EXCEPT !.location = <<"x", "1">>],
      [BaseRegister EXCEPT !.location_mode = "Index"],
      [BaseRegister EXCEPT !.location_mode = "Relative"],
      [BaseRegister EXCEPT !.access = "Read"],
      [BaseRegister EXCEPT !.description = <<"a", " ", "b">>, !.group = <<"a">>],
      [BaseRegister EXCEPT !.size = 16],
      [BaseRegister EXCEPT !.size = 16, !.access = "Read", !.functions = <<UiFunction_new_with_values(<<"1", "5", ":", "0">>, FALSE, <<"a">>, <<"w">>)>>],
      [BaseRegister EXCEPT !.functions = <<UiFunction_new_with_values(<<" ", "3", ":", "0">>, FALSE, <<"a">>, <<>>)>>],
      [BaseRegister EXCEPT !.functions = <<UiFunction_new_reserved(<<"7", ":", "4">>), UiFunction_new_with_values(<<"3", ":", "0">>, FALSE, <<"a">>, <<>>)>>],
      [BaseRegister EXCEPT !.enums = <<UiEnum(<<"e">>, <<"7", ":", "0">>, <<>>, <<UiEnumValue(<<"0">>, <<"x">>, <<>>), UiEnumValue(<<"1">>, <<"y">>, <<"z">>)>>)>>] }

\* The bit fields of the registers `Fill reserved` starts from.
FillBits == {<<"7", ":", "4">>, <<"3", ":", "0">>, <<"7">>, <<"6", ":", "5">>, <<"0">>, <<"x">>, <<" ", "5", ":", "4", " ">>, <<"1", "5", ":", "8">>}

FillFunctions == {UiFunction_new_with_values(bit, FALSE, <<"a">>, <<>>) : bit \in FillBits}

FillRegisters(max_functions) == {[BaseRegister EXCEPT !.size = size, !.functions = fs] : size \in {8, 16}, fs \in UNION {[1..n -> FillFunctions] : n \in 0..max_functions}}

InitEditor ==
    /\ pc \in {"editor", "fill"}
    /\ \E document \in Documents : \E data \in {EditorData_open(document)} :
        /\ is_some(data)
        /\ parsed_file = document
        /\ input \in IF pc = "editor" THEN {unwrap(data)}
                     ELSE {[unwrap(data) EXCEPT !.register = r] : r \in IF Len(document) = 3 THEN FillRegisters(MaxFunctions) ELSE {}}
    /\ v = NoValidator
    /\ groups = <<>>
    /\ todo = <<>>
    /\ array_pos = 0
    /\ registers = <<>>
    /\ result = None

\* modify_ui_and_data with the updates of the fields (editor.rs:318-323).
EditRegister ==
    /\ pc \in {"editor", "save_register", "fill_reserved"}
    /\ \E r \in EditorRegisters : input' = [input EXCEPT !.register = r]
    /\ input' # input
    /\ pc' = "editor"
    /\ result' = None
    /\ UNCHANGED <<v, parsed_file, groups, todo, array_pos, registers>>

\* The `Save` and `Save & next` buttons: save_register with what the file
\* system does.
SaveRegister ==
    /\ pc \in {"editor", "save_register", "fill_reserved"}
    /\ array_pos < MaxSaves
    /\ \E next_register \in BOOLEAN, io \in IoOutcomes : \E s \in {save_register(input, next_register, io)} :
        /\ input' = s.data
        /\ result' = [r |-> s.save.r, new_toml |-> s.save.new_toml, data |-> input, next_register |-> next_register, io |-> io]
        /\ registers' = IF s.save.r.ok THEN Append(registers, s.save.new_toml) ELSE registers
    /\ array_pos' = array_pos + 1
    /\ pc' = "save_register"
    /\ UNCHANGED <<v, parsed_file, groups, todo>>

\* The `Fill reserved` button.
FillReserved ==
    /\ pc \in {"editor", "save_register", "fill_reserved", "fill"}
    /\ input' = [input EXCEPT !.register.functions = fill_empty_register_fields_as_reserved(input.register)]
    /\ result' = [data |-> input]
    /\ pc' = IF pc = "fill" THEN "fill_done" ELSE "fill_reserved"
    /\ UNCHANGED <<v, parsed_file, groups, todo, array_pos, registers>>

NextEditor == EditRegister \/ SaveRegister \/ FillReserved

SpecEditor == InitEditor /\ [][NextEditor]_vars

(***************************************************************************)
(* Properties.                                                             *)
(***************************************************************************)
IsPrefix(s, t) == Len(s) <= Len(t) /\ SubSeq(t, 1, Len(s)) = s

Appended(s, t) == SubSeq(t, Len(s) + 1, Len(t))

Messages(errors) == [n \in 1..Len(errors) |-> errors[n].error]

\* C1: check_root_table returns Ok(model) exactly when no diagnostic was
\* appended during the pass (diagnostics are only ever appended); an Err
\* carries the whole, non-empty list, and a model is never returned with
\* diagnostics.
C1_OkIffNoDiagnostic ==
    [][/\ IsPrefix(v.data.errors, v'.data.errors)
       /\ pc' = "done" =>
            /\ result'.ok <=> (v'.data.errors = <<>>)
            /\ result'.ok => parsed_file' # None /\ result'.val = unwrap(parsed_file')
            /\ ~result'.ok => result'.error = v'.data.errors /\ Len(result'.error) >= 1]_vars

C1_Witness == pc = "done" /\ ~result.ok /\ parsed_file # None /\ Len(result.error) >= 2

\* C2: when the `register` key is a table of groups and no diagnostic is
\* produced, the returned model holds Registers::Groups with every group
\* name and the registers validated from its array.
C2_GroupsReturned ==
    (pc = "done" /\ result.ok /\ REGISTER_KEY \in DOMAIN input /\ input[REGISTER_KEY].kind = "Table")
        => result.val.registers = Some(Registers_Groups(groups))

RECURSIVE group_registers(_)
group_registers(group_list) == IF group_list = <<>> THEN <<>> ELSE Head(group_list)[2] \o group_registers(Tail(group_list))

\* The registers of a returned model.
model_registers(file) ==
    IF file.registers = None THEN <<>>
    ELSE IF unwrap(file.registers).kind = "OnlyRegisters" THEN unwrap(file.registers).registers
    ELSE group_registers(unwrap(file.registers).groups)

enum_value_set(e) == {e.values[n].value : n \in 1..Len(e.values)}

\* The value lists of the model hold fewer than 2^20 values.
is_exhaustive(e) == bit_count(e.range) <= 20 /\ Len(e.values) = pow2(bit_count(e.range)) /\ enum_value_set(e) = 0..(pow2(bit_count(e.range)) - 1)

\* C7: in a model returned by a successful validation, every enum flagged
\* complete has exactly the values 0..max_value(range), each once.
C7_CompleteEnumsAreExhaustive ==
    (pc = "done" /\ result.ok) =>
        \A n \in 1..Len(model_registers(result.val)) : \A k \in 1..Len(model_registers(result.val)[n].enums) :
            model_registers(result.val)[n].enums[k].all_possible_values_are_defined => is_exhaustive(model_registers(result.val)[n].enums[k])

C7_Witness ==
    /\ pc = "done"
    /\ result.ok
    /\ \E n \in 1..Len(model_registers(result.val)) : \E k \in 1..Len(model_registers(result.val)[n].enums) : model_registers(result.val)[n].enums[k].all_possible_values_are_defined

\* What a register table contributes when it is validated on its own.
contribution(tbl, rd) == validate_register_table(tbl, rd, ParserContextAndErrors_default).data.errors

known_keys_only(tbl) == [k \in DOMAIN tbl \cap {POSSIBLE_KEYS_REGISTER[n] : n \in 1..Len(POSSIBLE_KEYS_REGISTER)} |-> tbl[k]]

\* Exactly one unknown key, and without it exactly one diagnostic: an overlap.
two_independent_problems(tbl, rd) ==
    /\ Cardinality(DOMAIN tbl \ DOMAIN known_keys_only(tbl)) = 1
    /\ Len(contribution(known_keys_only(tbl), rd)) = 1
    /\ contribution(known_keys_only(tbl), rd)[1].error.id = "function bit range '{}' overlaps with another function '{}'"

validates_table_step == in_array /\ array_pos <= Len(Head(todo).val.a) /\ Head(todo).val.a[array_pos].kind = "Table" /\ array_pos' = array_pos + 1

\* C8: a register table with one unknown key and one overlapping pair of
\* bit fields contributes exactly two diagnostics, and every register table
\* of an array contributes what it contributes when validated alone,
\* whatever its siblings left behind.
C8_IndependentDiagnostics ==
    [][validates_table_step =>
        LET tbl == Head(todo).val.a[array_pos].t
            rd == unwrap(parsed_file).description
            added == Appended(v.data.errors, v'.data.errors)
        IN  /\ IsPrefix(v.data.errors, v'.data.errors)
            /\ added = contribution(tbl, rd)
            /\ two_independent_problems(tbl, rd) =>
                /\ Len(added) = 2
                /\ added[1].type = "UnknownKey"
                /\ added[2] = contribution(known_keys_only(tbl), rd)[1]]_vars

C8_Witness ==
    /\ in_array
    /\ array_pos = 3
    /\ two_independent_problems(Head(todo).val.a[1].t, unwrap(parsed_file).description)
    /\ Head(todo).val.a[2].t = Register_StatusOverlap
    /\ Len(v.data.errors) = 4

description_fails(root) ==
    \/ REGISTER_DESCRIPTION_KEY \notin DOMAIN root
    \/ root[REGISTER_DESCRIPTION_KEY].kind # "Table"
    \/ ~check_register_description(root[REGISTER_DESCRIPTION_KEY].t, ParserContextAndErrors_default).res.ok

\* C10: when the description table is missing, is not a table or fails its
\* check, check_root_table returns at once: no register table is validated
\* and every returned diagnostic is one of the root or description table.
C10_DescriptionFailureReturnsAtOnce ==
    description_fails(input) =>
        /\ pc \in {"start", "done"}
        /\ registers = <<>> /\ groups = <<>> /\ todo = <<>> /\ parsed_file = None
        /\ pc = "done" =>
            /\ ~result.ok
            /\ result.error = v.data.errors
            /\ \A n \in 1..Len(result.error) : result.error[n].table \in {"Root", "RegisterDescription"}

C10_Witness ==
    /\ pc = "done"
    /\ description_fails(input)
    /\ REGISTER_KEY \in DOMAIN input
    /\ input[REGISTER_KEY].kind = "Array"
    /\ Len(input[REGISTER_KEY].a) >= 1
    /\ input[REGISTER_KEY].a[1].kind = "Table"
    /\ Len(result.error) >= 2

(***************************************************************************)
(* Properties of check_functions (SpecFunctions).                          *)
(***************************************************************************)
covers(f, i) == f.range.lsb <= i /\ i <= f.range.msb

functions_covering(i) == {n \in 1..Len(input.functions) : covers(input.functions[n], i)}

OverlapTemplate == "function bit range '{}' overlaps with another function '{}'"

UndefinedTemplates == {"register bit '{}' is undefined", "some register bits are undefined, '{}'", "some register bits are undefined, {}"}

overlap_messages == SelectSeq(Messages(v.data.errors), LAMBDA m : m.id = OverlapTemplate)

undefined_messages == SelectSeq(Messages(v.data.errors), LAMBDA m : m.id \in UndefinedTemplates)

\* C3: check_functions appends no diagnostic exactly when every bit of the
\* register lies in exactly one function's range and no range reaches a
\* bit index >= size.
C3_NoDiagnosticIffPartition ==
    pc = "functions_done" =>
        ((v.data.errors = <<>>) <=>
            /\ \A i \in 0..(input.size_in_bits - 1) : Cardinality(functions_covering(i)) = 1
            /\ \A n \in 1..Len(input.functions) : input.functions[n].range.msb < input.size_in_bits)

C3_Witness == pc = "functions_done" /\ v.data.errors = <<>> /\ Len(input.functions) >= 2

ranges_intersect(a, b) == a.lsb <= b.msb /\ b.lsb <= a.msb

names_pair(m, a, b) == m.args = <<BitRange_fmt(a), BitRange_fmt(b)>> \/ m.args = <<BitRange_fmt(b), BitRange_fmt(a)>>

intersecting_pairs == {p \in (1..Len(input.functions)) \X (1..Len(input.functions)) : p[1] < p[2] /\ ranges_intersect(input.functions[p[1]].range, input.functions[p[2]].range)}

\* C4, as the specification states it: every pair of functions whose ranges intersect gets its
\* own ConstraintError naming the two ranges, one per pair.
C4_OneErrorPerIntersectingPair ==
    pc = "functions_done" =>
        /\ Len(overlap_messages) = Cardinality(intersecting_pairs)
        /\ \A p \in intersecting_pairs : \E k \in 1..Len(overlap_messages) : names_pair(overlap_messages[k], input.functions[p[1]].range, input.functions[p[2]].range)

\* The bits inside the register that function n shares with an earlier one.
shared_bits(n) == {i \in 0..(input.size_in_bits - 1) : covers(input.functions[n], i) /\ \E m \in 1..(n - 1) : covers(input.functions[m], i)}

lowest(S) == CHOOSE i \in S : \A j \in S : i <= j

first_owner(i) == input.functions[lowest(functions_covering(i))].range

overlapping_functions == SelectSeq([n \in 1..Len(input.functions) |-> n], LAMBDA n : shared_bits(n) # {})

\* C4: every function that shares a bit inside the register with an earlier
\* function gets exactly one ConstraintError, naming its range and the range
\* of the first function holding the lowest shared bit, however many bits
\* or earlier functions it overlaps; no other overlap error is emitted.
C4_OneErrorPerOverlappingFunction ==
    pc = "functions_done" =>
        overlap_messages = [k \in 1..Len(overlapping_functions) |->
            Msg(OverlapTemplate, <<BitRange_fmt(input.functions[overlapping_functions[k]].range), BitRange_fmt(first_owner(lowest(shared_bits(overlapping_functions[k]))))>>)]

C4_Witness ==
    /\ pc = "functions_done"
    /\ Len(overlap_messages) = 1
    /\ \E n \in 1..Len(input.functions) : \E m1, m2 \in 1..(n - 1) :
        /\ input.functions[m1].range # input.functions[m2].range
        /\ \E i \in shared_bits(n) : covers(input.functions[m1], i)
        /\ \E i \in shared_bits(n) : covers(input.functions[m2], i)

unclaimed(i) == functions_covering(i) = {}

run_starts == {i \in 0..(input.size_in_bits - 1) : unclaimed(i) /\ (i = 0 \/ ~unclaimed(i - 1))}

run_end(lsb) == CHOOSE j \in lsb..(input.size_in_bits - 1) : (\A k \in lsb..j : unclaimed(k)) /\ (j = input.size_in_bits - 1 \/ ~unclaimed(j + 1))

RECURSIVE ascending(_)
ascending(S) == IF S = {} THEN <<>> ELSE <<lowest(S)>> \o ascending(S \ {lowest(S)})

\* The maximal runs of unclaimed bits, lowest first.
unclaimed_runs == [k \in 1..Cardinality(run_starts) |-> BitRange_new(run_end(ascending(run_starts)[k]), ascending(run_starts)[k])]

RECURSIVE quoted_list(_)
quoted_list(ranges) == <<"'">> \o BitRange_fmt(Head(ranges)) \o <<"'">> \o (IF Len(ranges) = 1 THEN <<>> ELSE <<",", " ">> \o quoted_list(Tail(ranges)))

\* C5: the undefined-bit ranges reported are exactly the maximal runs of
\* bits no function claims, in ascending order, in at most one diagnostic:
\* none without a run, the singular message for one 1-bit run, the range
\* message for one longer run, one combined message for several runs.
C5_UndefinedRunsReportedOnce ==
    pc = "functions_done" =>
        undefined_messages =
            IF Len(unclaimed_runs) = 0 THEN <<>>
            ELSE IF Len(unclaimed_runs) = 1 /\ unclaimed_runs[1].msb = unclaimed_runs[1].lsb THEN <<Msg("register bit '{}' is undefined", <<to_string(unclaimed_runs[1].lsb)>>)>>
            ELSE IF Len(unclaimed_runs) = 1 THEN <<Msg("some register bits are undefined, '{}'", <<to_string(unclaimed_runs[1].msb) \o <<":">> \o to_string(unclaimed_runs[1].lsb)>>)>>
            ELSE <<Msg("some register bits are undefined, {}", <<quoted_list(unclaimed_runs)>>)>>

C5_Witness == pc = "functions_done" /\ Len(unclaimed_runs) >= 2 /\ Len(input.functions) >= 2 /\ Len(undefined_messages) = 1

(***************************************************************************)
(* Properties of validate_register_table (SpecRegister).                   *)
(***************************************************************************)
has_exactly_max_plus_one_values(e) == bit_count(e.range) <= 20 /\ Len(e.values) = pow2(bit_count(e.range))

\* C6, as the specification states it: after validate_register_table, every enum of the register
\* has is_complete equal to (len(values) == max_value(range) + 1).
C6_FlagOnEveryEnum ==
    (pc = "register_done" /\ result.res.ok) =>
        \A k \in 1..Len(result.res.val.enums) :
            result.res.val.enums[k].all_possible_values_are_defined <=> has_exactly_max_plus_one_values(result.res.val.enums[k])

\* The enum passes the matching checks of check_register_enums.
passes_matching(register, k) ==
    /\ \E n \in 1..Len(register.functions) : register.functions[n].range = register.enums[k].range
    /\ \A n \in 1..Len(register.functions) : register.functions[n].range = register.enums[k].range => ~register.functions[n].status.reserved
    /\ \A j \in 1..(k - 1) : register.enums[j].range # register.enums[k].range

\* C6: after validate_register_table, an enum whose range is the range of a
\* function, of no reserved function and of no earlier enum has is_complete
\* equal to (len(values) == max_value(range) + 1), false when the range is
\* wider than 64 bits; every other enum has is_complete false.
C6_FlagOnMatchedEnums ==
    (pc = "register_done" /\ result.res.ok) =>
        \A k \in 1..Len(result.res.val.enums) :
            result.res.val.enums[k].all_possible_values_are_defined <=> (passes_matching(result.res.val, k) /\ has_exactly_max_plus_one_values(result.res.val.enums[k]))

C6_Witness ==
    /\ pc = "register_done"
    /\ result.res.ok
    /\ \E k \in 1..Len(result.res.val.enums) : result.res.val.enums[k].all_possible_values_are_defined /\ Len(result.res.val.enums[k].values) = 4
    /\ \E k \in 1..Len(result.res.val.enums) : ~result.res.val.enums[k].all_possible_values_are_defined /\ has_exactly_max_plus_one_values(result.res.val.enums[k])

Overlap_41_30 == Msg(OverlapTemplate, <<<<"4", ":", "1">>, <<"3", ":", "0">>>>)

RECURSIVE flatten(_)
flatten(lists) == IF lists = <<>> THEN <<>> ELSE Head(lists) \o flatten(Tail(lists))

is_ok(r) == r.res.ok

child_data(context) == [context_stack |-> context, errors |-> <<>>]

\* Every child table validated on its own, below the context of its parent.
functions_alone(tables, context) == [n \in 1..Len(tables) |-> validate_function_table(tables[n].t, child_data(context))]

enums_alone(tables, context) == [n \in 1..Len(tables) |-> validate_enum_table(tables[n].t, child_data(context))]

enum_values_alone(tables, context) == [n \in 1..Len(tables) |-> validate_enum_value_table(tables[n].t, child_data(context))]

\* The children that parsed, in document order, and what all children reported.
survivors(alone) == [n \in 1..Len(SelectSeq(alone, is_ok)) |-> SelectSeq(alone, is_ok)[n].res.val]

reported(alone) == flatten([n \in 1..Len(alone) |-> alone[n].data.errors])

failures_are_reported(alone) == \A n \in 1..Len(alone) : ~alone[n].res.ok => alone[n].data.errors # <<>>

array_or_empty(tbl, key) == IF key \in DOMAIN tbl THEN tbl[key].a ELSE <<>>

register_context(tbl) == <<<<"register '">> \o tbl[NAME_KEY].s \o <<"'">>>>

enum_context(tbl, context) == Append(context, <<"enum '">> \o tbl[NAME_KEY].s \o <<"'">>)

is_child_error(e) == e.table # "Register"

is_value_error(e) == e.table = "EnumValue"

\* An enum that parsed holds the enum values that parse on their own and
\* reported what they report.
enum_keeps_its_values(e_tbl, context) ==
    is_ok(validate_enum_table(e_tbl, child_data(context))) =>
        /\ validate_enum_table(e_tbl, child_data(context)).res.val.values = survivors(enum_values_alone(e_tbl[VALUES_KEY].a, enum_context(e_tbl, context)))
        /\ SelectSeq(validate_enum_table(e_tbl, child_data(context)).data.errors, is_value_error) = reported(enum_values_alone(e_tbl[VALUES_KEY].a, enum_context(e_tbl, context)))
        /\ failures_are_reported(enum_values_alone(e_tbl[VALUES_KEY].a, enum_context(e_tbl, context)))

\* The register made of the surviving children, after its semantic checks.
semantic_checks(register, context) == check_register_enums(register, check_functions(register, TableValidator_new(EmptyTable, "Register", child_data(context))))

\* C11: a register that validate_register_table returns holds exactly the
\* bit fields and enums (and each enum the enum values) that parse on their
\* own, in document order; every child that does not parse has reported at
\* least one diagnostic, the children after it are validated all the same,
\* and the diagnostics of the semantic checks on the surviving children
\* follow those of the children.
C11_FailedChildrenDropped ==
    (pc = "register_done" /\ result.res.ok) =>
        LET tbl == input.tbl
            function_results == functions_alone(tbl[FUNCTIONS_KEY].a, register_context(tbl))
            enum_results == enums_alone(array_or_empty(tbl, ENUMS_KEY), register_context(tbl))
            checked == semantic_checks([result.res.val EXCEPT !.functions = survivors(function_results), !.enums = survivors(enum_results)], register_context(tbl))
        IN  /\ result.res.val.functions = survivors(function_results)
            /\ result.res.val.enums = checked.self.enums
            /\ [n \in 1..Len(result.res.val.enums) |-> result.res.val.enums[n].name] = [n \in 1..Len(survivors(enum_results)) |-> survivors(enum_results)[n].name]
            /\ failures_are_reported(function_results) /\ failures_are_reported(enum_results)
            /\ \A n \in 1..Len(array_or_empty(tbl, ENUMS_KEY)) : enum_keeps_its_values(array_or_empty(tbl, ENUMS_KEY)[n].t, register_context(tbl))
            /\ SelectSeq(result.data.errors, is_child_error) = reported(function_results) \o reported(enum_results)
            /\ Appended(reported(function_results) \o reported(enum_results), SelectSeq(result.data.errors, LAMBDA e : e.type # "UnknownKey" \/ is_child_error(e))) = checked.v.data.errors

\* The first bit field fails, two later siblings survive and overlap.
C11_Witness ==
    /\ pc = "register_done"
    /\ result.res.ok
    /\ Len(input.tbl[FUNCTIONS_KEY].a) = 3
    /\ ~is_ok(validate_function_table(input.tbl[FUNCTIONS_KEY].a[1].t, ParserContextAndErrors_default))
    /\ Len(result.res.val.functions) = 2
    /\ \E n \in 1..Len(result.data.errors) : result.data.errors[n].error.id = "function bit range '{}' overlaps with another function '{}'"

(***************************************************************************)
(* Keys of one entity table (validation.rs:273-281, 428-436;               *)
(* register.rs:505-513, 579-655; register_description.rs:40-72).           *)
(***************************************************************************)
entity_done == [description_done |-> "description", register_done |-> "register", function_done |-> "function", enum_done |-> "enum", enum_value_done |-> "enum_value"]

validated == pc \in DOMAIN entity_done

entity == entity_done[pc]

entity_table == [description |-> "RegisterDescription", register |-> "Register", function |-> "Function", enum |-> "Enum", enum_value |-> "EnumValue"]

seq_set(seq) == {seq[n] : n \in 1..Len(seq)}

allowed_keys ==
    IF entity = "description" THEN seq_set(POSSIBLE_KEYS)
    ELSE IF entity = "register" THEN seq_set(POSSIBLE_KEYS_REGISTER) \cup (IF input.rd.extension = Some("Vga") THEN {INDEX_KEY} ELSE {})
    ELSE IF entity = "function" THEN seq_set(POSSIBLE_KEYS_FUNCTION)
    ELSE IF entity = "enum" THEN seq_set(POSSIBLE_KEYS_ENUM)
    ELSE seq_set(POSSIBLE_KEYS_ENUM_VALUE)

unknown_keys == DOMAIN input.tbl \ allowed_keys

\* The diagnostics of the table itself, not those of its children.
own_errors == SelectSeq(result.data.errors, LAMBDA e : e.table = entity_table[entity])

errors_of_type(errors, type) == SelectSeq(errors, LAMBDA e : e.type = type)

reports_each_once(errors, keys) ==
    /\ Len(errors) = Cardinality(keys)
    /\ \A k \in keys : \E n \in 1..Len(errors) : errors[n].key = k

\* C12 as stated: every validator reports every unknown key of every table
\* once, whatever else is wrong with the table.
C12_EveryUnknownKeyReported ==
    validated => reports_each_once(errors_of_type(own_errors, "UnknownKey"), unknown_keys)

\* The key every validator but check_register_description reads before it
\* looks for unknown keys, and whether the table holds a usable value for it.
first_key == IF entity = "function" THEN BIT_KEY ELSE NAME_KEY

first_key_converts ==
    /\ first_key \in DOMAIN input.tbl
    /\ input.tbl[first_key].kind = "String"
    /\ IF entity = "function" THEN BitRange_try_from(input.tbl[first_key].s).ok ELSE Name_try_from(input.tbl[first_key].s).ok

reaches_unknown_key_check == entity = "description" \/ first_key_converts

\* C12: check_register_description reports every unknown key of its table
\* once, whatever else is wrong with it.  The other validators do so once
\* their first key (`bit` of a bit field, `name` of a register, enum and
\* enum value) is present and converts, whatever is wrong with the rest of
\* the table; otherwise the table yields the one diagnostic of that key and
\* no UnknownKey.
C12_UnknownKeysAfterFirstKey ==
    validated =>
        /\ reaches_unknown_key_check => reports_each_once(errors_of_type(own_errors, "UnknownKey"), unknown_keys)
        /\ ~reaches_unknown_key_check => Len(result.data.errors) = 1 /\ result.data.errors[1].type # "UnknownKey" /\ result.data.errors[1].key = first_key /\ ~result.res.ok

\* A bit field with two unknown keys, not reserved and without a name.
C12_Witness ==
    /\ pc = "function_done"
    /\ Cardinality(unknown_keys) = 2
    /\ ~result.res.ok
    /\ Len(own_errors) = 3
    /\ own_errors[3].type = "TableValidationError"

\* The keys each validator reads with require(), in the order it reads them.
required_keys == [description |-> <<NAME_KEY, VERSION_KEY>>, register |-> <<NAME_KEY, FUNCTIONS_KEY>>, function |-> <<BIT_KEY>>, enum |-> <<NAME_KEY, BIT_KEY, VALUES_KEY>>, enum_value |-> <<NAME_KEY, VALUE_KEY>>]

absent_keys == SelectSeq(required_keys[entity], LAMBDA k : k \notin DOMAIN input.tbl)

\* C13 as stated: every absent required key has its own MissingKey, and so
\* has the `name` of a bit field that is not reserved.
C13_EveryMissingKeyReported ==
    validated => reports_each_once(errors_of_type(own_errors, "MissingKey"), seq_set(absent_keys) \cup (IF entity = "function" /\ NAME_KEY \notin DOMAIN input.tbl /\ (RESERVED_KEY \notin DOMAIN input.tbl \/ ~input.tbl[RESERVED_KEY].b) THEN {NAME_KEY} ELSE {}))

only_key_errors == \A n \in 1..Len(own_errors) : own_errors[n].type \in {"MissingKey", "UnknownKey"}

unnamed_function == entity = "function" /\ first_key_converts /\ NAME_KEY \notin DOMAIN input.tbl /\ (RESERVED_KEY \notin DOMAIN input.tbl \/ input.tbl[RESERVED_KEY] = Boolean(FALSE))

\* C13: a table yields at most one MissingKey.  It is the one of the first
\* required key, in the order the validator reads them, that is absent; it
\* is the last diagnostic of the table and no entity is returned.  It is
\* reported whenever a required key is absent and the validator has reported
\* no value or constraint error before, so a table that lacks two required
\* keys yields one MissingKey (an enum without `bit` and `values` the one
\* for `bit`, an enum value without `name` and `value` the one for `name`).
\* A bit field that is not reserved and has no `name` yields no MissingKey
\* but the constraint error "missing key 'name'".
C13_FirstMissingKeyOnly ==
    validated =>
        LET reported_keys == errors_of_type(own_errors, "MissingKey")
        IN  /\ Len(reported_keys) <= 1
            /\ Len(reported_keys) = 1 =>
                /\ absent_keys # <<>>
                /\ reported_keys[1].key = Head(absent_keys)
                /\ result.data.errors[Len(result.data.errors)] = reported_keys[1]
                /\ ~result.res.ok
            /\ (absent_keys # <<>> /\ only_key_errors) => Len(reported_keys) = 1
            /\ (absent_keys # <<>> /\ Head(absent_keys) = first_key) => Len(reported_keys) = 1
            /\ unnamed_function =>
                /\ reported_keys = <<>>
                /\ ~result.res.ok
                /\ result.data.errors[Len(result.data.errors)].type = "TableValidationError"
                /\ result.data.errors[Len(result.data.errors)].error.id = "missing key '{}'"

\* An enum without `bit` and without `values`.
C13_Witness ==
    /\ pc = "enum_done"
    /\ absent_keys = <<BIT_KEY, VALUES_KEY>>
    /\ Len(errors_of_type(own_errors, "MissingKey")) = 1
    /\ errors_of_type(own_errors, "MissingKey")[1].key = BIT_KEY

(***************************************************************************)
(* Location, size and access mode of a register (register.rs:517-541, 559).*)
(***************************************************************************)
location_keys == {INDEX_KEY, ABSOLUTE_ADDRESS_KEY, RELATIVE_ADDRESS_KEY}

location_kind == [index |-> "Index", absolute_address |-> "Absolute", relative_address |-> "Relative"]

present_locations == DOMAIN input.tbl \cap location_keys

\* Every location key of the table holds an integer that fits u64.
locations_convert == \A k \in present_locations : input.tbl[k].kind = "Integer" /\ input.tbl[k].i >= 0

\* The table validates once its location keys are replaced by one valid key.
valid_but_for_location == is_ok(validate_register_table((ABSOLUTE_ADDRESS_KEY :> Integer(16)) @@ [k \in DOMAIN input.tbl \ location_keys |-> input.tbl[k]], input.rd, ParserContextAndErrors_default))

one_constraint_error(id) ==
    /\ ~result.res.ok
    /\ Len(errors_of_type(own_errors, "TableValidationError")) = 1
    /\ result.data.errors[Len(result.data.errors)].type = "TableValidationError"
    /\ result.data.errors[Len(result.data.errors)].error.id = id

one_value_error(key) ==
    /\ ~result.res.ok
    /\ Len(errors_of_type(own_errors, "ValueValidationError")) = 1
    /\ result.data.errors[Len(result.data.errors)].type = "ValueValidationError"
    /\ result.data.errors[Len(result.data.errors)].key = key

has_location(k) == result.res.ok /\ result.res.val.location = RegisterLocation(location_kind[k], input.tbl[k].i)

\* C14 as stated, for tables that are valid but for their location keys:
\* a register is returned, with Index(n), Absolute(n) or Relative(n),
\* exactly when exactly one location key is present, with value n; with none
\* or several there is one constraint error and no register.
C14_LocationIffOneKey ==
    (pc = "register_done" /\ valid_but_for_location /\ locations_convert) =>
        /\ \A k \in present_locations : present_locations = {k} <=> has_location(k)
        /\ result.res.ok => Cardinality(present_locations) = 1
        /\ Cardinality(present_locations) # 1 => ~result.res.ok /\ Len(errors_of_type(own_errors, "TableValidationError")) = 1

\* C14: for a table that is valid but for its location keys, whose location
\* keys hold non-negative integers: validate_register_table returns a
\* register with Absolute(n) or Relative(n) exactly when that key is the one
\* location key present, with value n, and with Index(n) exactly when
\* `index` is the one location key present, with value n <= 65535 (the
\* register's index is then Some(n)); a lone `index` above 65535 yields one
\* value error for `index` and no register.  With no location key, or with
\* more than one, there is one constraint error and no register.  A location
\* key that holds no integer yields a value error and no register.
C14_LocationOfOneKey ==
    (pc = "register_done" /\ valid_but_for_location) =>
        /\ locations_convert =>
            /\ \A k \in present_locations : has_location(k) <=> (present_locations = {k} /\ (k = INDEX_KEY => input.tbl[k].i <= U16Max))
            /\ result.res.ok => Cardinality(present_locations) = 1 /\ result.res.val.index = (IF present_locations = {INDEX_KEY} THEN Some(input.tbl[INDEX_KEY].i) ELSE None)
            /\ (present_locations = {INDEX_KEY} /\ input.tbl[INDEX_KEY].i > U16Max) => one_value_error(INDEX_KEY)
            /\ present_locations = {} => one_constraint_error("register location field '{}', '{}', or '{}' is required")
            /\ Cardinality(present_locations) > 1 => one_constraint_error("register location field count error: only one location field is supported")
        /\ (\E k \in present_locations : input.tbl[k].kind # "Integer") => \E k \in present_locations : one_value_error(k)

\* The largest index a register can have.
C14_Witness ==
    /\ pc = "register_done"
    /\ present_locations = {INDEX_KEY}
    /\ has_location(INDEX_KEY)
    /\ result.res.val.index = Some(U16Max)

\* The validator gets as far as the size: the name converts and one location
\* key holds a non-negative integer.
reaches_size == first_key_converts /\ Cardinality(present_locations) = 1 /\ locations_convert

own_size == IF SIZE_IN_BITS_KEY \in DOMAIN input.tbl THEN Some(RegisterSize_try_from(input.tbl[SIZE_IN_BITS_KEY].s).val) ELSE None

own_access == IF ACCESS_KEY \in DOMAIN input.tbl THEN Some(AccessMode_try_from(input.tbl[ACCESS_KEY].s).val) ELSE None

\* C15: a register that validate_register_table returns has the size (the
\* access mode) of its own `size` (`access`) key when its table has the key,
\* and the default of the description otherwise.  A table that has neither
\* its own size nor a default to fall back on yields one constraint error
\* and no register, and so does a table with a size but without access mode
\* and default access mode.
C15_OwnValueElseDefault ==
    pc = "register_done" =>
        /\ result.res.ok =>
            /\ Some(result.res.val.size_in_bits) = (IF is_some(own_size) THEN own_size ELSE input.rd.default_register_size_in_bits)
            /\ Some(result.res.val.access_mode) = (IF is_some(own_access) THEN own_access ELSE input.rd.default_register_access)
        /\ (reaches_size /\ is_none(own_size) /\ is_none(input.rd.default_register_size_in_bits)) => one_constraint_error("register size is undefined")
        /\ (reaches_size /\ is_some(own_size) /\ RegisterSize_try_from(input.tbl[SIZE_IN_BITS_KEY].s).ok /\ is_none(own_access) /\ is_none(input.rd.default_register_access)) => one_constraint_error("register access mode is undefined")

\* A register with its own size next to a default size, and the default
\* access mode.
C15_Witness ==
    /\ pc = "register_done"
    /\ result.res.ok
    /\ own_size = Some(8)
    /\ input.rd.default_register_size_in_bits = Some(16)
    /\ result.res.val.size_in_bits = 8
    /\ is_none(own_access)
    /\ result.res.val.access_mode = "ReadWrite"

(***************************************************************************)
(* The enums of a register (register.rs:367-430).                          *)
(***************************************************************************)
NoMatchTemplate == "no matching function bit range found for enum '{}'"

ReservedTemplate == "enum '{}' bit range is reserved"

SameRangeTemplate == "same bit range '{}' is defined found for enums '{}' and '{}'"

LargerTemplate == "enum value '{}' with value '{}' for enum '{}' is larger than enum max value '{}'"

SameValueTemplate == "enum values '{}' and '{}' have the same value '{}'"

errors_with(errors, ids) == SelectSeq(errors, LAMBDA e : e.error.id \in ids)

functions_on(register, range) == {n \in 1..Len(register.functions) : register.functions[n].range = range}

earlier_enums_on(register, k) == {j \in 1..(k - 1) : register.enums[j].range = register.enums[k].range}

highest(S) == CHOOSE n \in S : \A m \in S : m <= n

\* The enum fails one of the three checks on its bit range.
rejected(register, k) ==
    \/ functions_on(register, register.enums[k].range) = {}
    \/ \E n \in functions_on(register, register.enums[k].range) : register.functions[n].status.reserved
    \/ earlier_enums_on(register, k) # {}

rejection(register, k) ==
    IF functions_on(register, register.enums[k].range) = {} THEN Msg(NoMatchTemplate, <<register.enums[k].name>>)
    ELSE IF \E n \in functions_on(register, register.enums[k].range) : register.functions[n].status.reserved THEN Msg(ReservedTemplate, <<register.enums[k].name>>)
    ELSE Msg(SameRangeTemplate, <<BitRange_fmt(register.enums[k].range), register.enums[k].name, register.enums[highest(earlier_enums_on(register, k))].name>>)

rejected_enums(register) == SelectSeq([k \in 1..Len(register.enums) |-> k], LAMBDA k : rejected(register, k))

\* Positions of the values of an enum that exceed the largest value of its
\* range, and of those whose number occurred before.
too_large(e) == {n \in 1..Len(e.values) : bit_count(e.range) <= 20 /\ e.values[n].value > pow2(bit_count(e.range)) - 1}

repeated(e) == {n \in 1..Len(e.values) : \E m \in 1..(n - 1) : e.values[m].value = e.values[n].value}

RECURSIVE sum_over(_, _)
sum_over(counts, n) == IF n = 0 THEN 0 ELSE counts[n] + sum_over(counts, n - 1)

value_faults(register, faults) == sum_over([k \in 1..Len(register.enums) |-> IF rejected(register, k) \/ bit_count(register.enums[k].range) > 64 THEN 0 ELSE Cardinality(faults[k])], Len(register.enums))

\* C16: in a register returned by validate_register_table, the enums whose
\* range is the range of no function, of a reserved function or of an
\* earlier enum each get exactly one constraint error, in the order of the
\* enums (the shared-range one names the range, the enum and the earlier
\* enum); their flag stays false and their values are not checked: the
\* errors about enum values are those of the other enums only.
C16_RejectedEnumsGetOneError ==
    (pc = "register_done" /\ result.res.ok) =>
        LET register == result.res.val
        IN  /\ Messages(errors_with(result.data.errors, {NoMatchTemplate, ReservedTemplate, SameRangeTemplate})) = [n \in 1..Len(rejected_enums(register)) |-> rejection(register, rejected_enums(register)[n])]
            /\ \A k \in 1..Len(register.enums) : rejected(register, k) => ~register.enums[k].all_possible_values_are_defined
            /\ Len(errors_with(result.data.errors, {LargerTemplate})) = value_faults(register, [k \in 1..Len(register.enums) |-> too_large(register.enums[k])])
            /\ Len(errors_with(result.data.errors, {SameValueTemplate})) = value_faults(register, [k \in 1..Len(register.enums) |-> repeated(register.enums[k])])

\* An enum on a reserved range with a repeated and an oversized value,
\* followed by an enum that is checked.
C16_Witness ==
    /\ pc = "register_done"
    /\ result.res.ok
    /\ Len(result.res.val.enums) = 2
    /\ rejected(result.res.val, 1)
    /\ ~rejected(result.res.val, 2)
    /\ repeated(result.res.val.enums[1]) # {}
    /\ Messages(result.data.errors) = <<Msg(ReservedTemplate, <<result.res.val.enums[1].name>>)>>
    /\ result.res.val.enums[2].all_possible_values_are_defined

\* What the values of one enum are to be reported with: for every value in
\* turn, that it is too large, then that its number occurred before (under
\* the name of the last value that had it).
value_messages(e) ==
    flatten([n \in 1..Len(e.values) |->
        (IF n \in too_large(e) THEN <<Msg(LargerTemplate, <<e.values[n].name, to_string(e.values[n].value), e.name>>)>> ELSE <<>>)
        \o (IF n \in repeated(e) THEN <<Msg(SameValueTemplate, <<e.values[n].name, e.values[highest({m \in 1..(n - 1) : e.values[m].value = e.values[n].value})].name, to_string(e.values[n].value)>>)>> ELSE <<>>)])

matches_normal_function(register, k) == \E n \in functions_on(register, register.enums[k].range) : ~register.functions[n].status.reserved

reported_value_messages == Messages(errors_with(result.data.errors, {LargerTemplate, SameValueTemplate}))

\* C17 as stated: the values of every enum whose range is the range of a
\* function that is not reserved are checked.
C17_ValuesOfMatchedEnumsChecked ==
    (pc = "register_done" /\ result.res.ok) =>
        reported_value_messages = flatten([k \in 1..Len(result.res.val.enums) |-> IF matches_normal_function(result.res.val, k) THEN value_messages(result.res.val.enums[k]) ELSE <<>>])

\* The enum passes the three checks on its range, which is at most 64 bits wide.
values_are_checked(register, k) == ~rejected(register, k) /\ bit_count(register.enums[k].range) <= 64

\* C17: for an enum whose range is the range of a function, of no reserved
\* function and of no earlier enum of the register, and is at most 64 bits
\* wide, the semantic checker appends one constraint error for every value
\* greater than max_value(range) and one for every value whose number
\* occurred earlier in the same enum, in the order of the values; an enum
\* with unique values within its range appends none, and the values of the
\* other enums are not checked.
C17_ValuesOfCheckedEnums ==
    (pc = "register_done" /\ result.res.ok) =>
        /\ reported_value_messages = flatten([k \in 1..Len(result.res.val.enums) |-> IF values_are_checked(result.res.val, k) THEN value_messages(result.res.val.enums[k]) ELSE <<>>])
        /\ \A k \in 1..Len(result.res.val.enums) : (too_large(result.res.val.enums[k]) = {} /\ repeated(result.res.val.enums[k]) = {}) => value_messages(result.res.val.enums[k]) = <<>>

\* Two enums on the range of one function: the values of the first are
\* reported, those of the second are not.
C17_Witness ==
    /\ pc = "register_done"
    /\ result.res.ok
    /\ Len(result.res.val.enums) = 2
    /\ matches_normal_function(result.res.val, 2)
    /\ ~values_are_checked(result.res.val, 2)
    /\ value_messages(result.res.val.enums[2]) # <<>>
    /\ values_are_checked(result.res.val, 1)
    /\ too_large(result.res.val.enums[1]) # {}
    /\ repeated(result.res.val.enums[1]) # {}
    /\ reported_value_messages = value_messages(result.res.val.enums[1])

(***************************************************************************)
(* Reserved bit fields (register.rs:579-605).                              *)
(***************************************************************************)
marked_reserved == RESERVED_KEY \in DOMAIN input.tbl /\ input.tbl[RESERVED_KEY] = Boolean(TRUE)

\* C18: a bit-field table marked reserved that carries a `name` or a
\* `description` is rejected with a diagnostic; a bit field is returned as
\* Reserved only if its table had neither key, and as Normal only if the
\* table was not marked reserved and had a name.
C18_ReservedTakesNoNameNoDescription ==
    pc = "function_done" =>
        /\ (marked_reserved /\ (NAME_KEY \in DOMAIN input.tbl \/ DESCRIPTION_KEY \in DOMAIN input.tbl)) => ~result.res.ok /\ result.data.errors # <<>>
        /\ (result.res.ok /\ result.res.val.status.reserved) => NAME_KEY \notin DOMAIN input.tbl /\ DESCRIPTION_KEY \notin DOMAIN input.tbl
        /\ (result.res.ok /\ ~result.res.val.status.reserved) => ~marked_reserved /\ NAME_KEY \in DOMAIN input.tbl

(***************************************************************************)
(* Generated accessors and bit-field constants                             *)
(* (codegen/rust/register.rs:220-271, 621-630, 855-870).                   *)
(***************************************************************************)
has_method(method) == \E n \in 1..Len(result) : result[n] = method

has_reserved_function(register) == \E n \in 1..Len(register.functions) : register.functions[n].status = FunctionStatus_Reserved

\* C19: the generated accessor has `read` iff the access mode is Read or
\* ReadWrite, `modify` iff it is ReadWrite, and `write` iff it is Write or
\* ReadWrite and no bit field of the register is reserved; each at most
\* once.  A Write register with a reserved bit field gets none.
C19_AccessorMethods ==
    pc = "accessor_done" =>
        /\ has_method("read") <=> input.access_mode \in {"Read", "ReadWrite"}
        /\ has_method("modify") <=> input.access_mode = "ReadWrite"
        /\ has_method("write") <=> (input.access_mode \in {"Write", "ReadWrite"} /\ ~has_reserved_function(input))
        /\ Cardinality({result[n] : n \in 1..Len(result)}) = Len(result)
        /\ {result[n] : n \in 1..Len(result)} \subseteq {"read", "modify", "write"}
        /\ (input.access_mode = "Write" /\ has_reserved_function(input)) => result = <<>>

\* A Write register whose last bit field is reserved.
C19_Witness ==
    /\ pc = "accessor_done"
    /\ input.access_mode = "Write"
    /\ Len(input.functions) >= 2
    /\ ~input.functions[1].status.reserved
    /\ input.functions[Len(input.functions)].status.reserved
    /\ result = <<>>

field_bits(range) == range.lsb..range.msb

C21_VariantRoundTrip ==
    pc = "variant_done" =>
        /\ result.decoded = result.variant
        /\ result.read = result.variant
        /\ result.variant # Unreachable

\* The variant with value 2, listed first, of a complete enum on the field
\* 2:1, written into the raw value 0xFF.
C21_Witness ==
    /\ pc = "variant_done"
    /\ bit_fields_and_enums(input.register)[input.field].bit_field.range = BitRange_new(2, 1)
    /\ input.variant = 1
    /\ result.variant.value = 2
    /\ input.raw_bits = Bits(8)
    /\ result.raw_bits = Bits(8) \ {1}
    /\ result.read = result.variant

\* The I/O traits the claim names for one register: the read trait of its
\* location kind when its access includes Read, the write trait when it
\* includes Write, for the marker and the unsigned integer of its size.
io_trait_name(kind, direction) ==
    CASE kind = "Index" -> IF direction = "R" THEN "RegisterIndexIoR" ELSE "RegisterIndexIoW"
      [] kind = "Absolute" -> IF direction = "R" THEN "RegisterAbsIoR" ELSE "RegisterAbsIoW"
      [] kind = "Relative" -> IF direction = "R" THEN "RegisterRelIoR" ELSE "RegisterRelIoW"

directions(access_mode) == (IF access_mode \in {"Read", "ReadWrite"} THEN {"R"} ELSE {}) \cup (IF access_mode \in {"Write", "ReadWrite"} THEN {"W"} ELSE {})

claimed_bound(register, marker) == {[trait |-> io_trait_name(register.location.kind, direction), group |-> marker, size |-> rust_unsigned_integer(register.size_in_bits)] : direction \in directions(register.access_mode)}

bound_tokens(bound) == {bound[k] : k \in 1..Len(bound)}

input_groups == IF input = None THEN <<>> ELSE IF unwrap(input).kind = "OnlyRegisters" THEN <<<<"", unwrap(input).registers>>>> ELSE unwrap(input).groups

\* C22: the bound generated for a register is exactly the read I/O trait
\* of its location kind iff its access includes Read and the write I/O
\* trait of its location kind iff its access includes Write, each with the
\* marker of the register's group and its unsigned width; the bound of the
\* accessor struct of a group is the duplicate-free union of the bounds of
\* the registers of that group, and of no register of another group.
C22_CapabilityBounds ==
    pc = "groups_done" =>
        /\ Len(result) = Len(input_groups)
        /\ \A g \in 1..Len(result) :
            /\ \A n \in 1..Len(input_groups[g][2]) : bound_tokens(io_traits_rust(input_groups[g][2][n], result[g].marker)) = claimed_bound(input_groups[g][2][n], result[g].marker)
            /\ \A n \in 1..Len(input_groups[g][2]) : Len(io_traits_rust(input_groups[g][2][n], result[g].marker)) = Cardinality(directions(input_groups[g][2][n].access_mode))
            /\ bound_tokens(result[g].type_bounds) = UNION {claimed_bound(input_groups[g][2][n], result[g].marker) : n \in 1..Len(input_groups[g][2])}
            /\ \A j, k \in 1..Len(result[g].type_bounds) : result[g].type_bounds[j] = result[g].type_bounds[k] => j = k
            /\ \A h \in 1..Len(result) : h # g => result[h].marker # result[g].marker

\* Two groups: `io` with a ReadWrite and a Read register, both indexed and
\* of 8 bits, whose bound holds the read trait once, and `b` with one
\* relative Write register.
C22_Witness ==
    /\ pc = "groups_done"
    /\ Len(result) = 2
    /\ Len(input_groups[1][2]) = 2
    /\ input_groups[1][2][1].access_mode = "ReadWrite"
    /\ input_groups[1][2][2].access_mode = "Read"
    /\ input_groups[1][2][1].location.kind = "Index"
    /\ input_groups[1][2][2].location.kind = "Index"
    /\ input_groups[1][2][2].size_in_bits = 8
    /\ result[1].type_bounds = <<io_trait("RegisterIndexIoR", <<"Io", "Group">>, "u8"), io_trait("RegisterIndexIoW", <<"Io", "Group">>, "u8")>>
    /\ result[2].type_bounds = <<io_trait("RegisterRelIoW", <<"B", "Group">>, "u8")>>

\* The enums of the register on the range of the bit field.
enums_on(register, range) == {k \in 1..Len(register.enums) : register.enums[k].range = range}

field_of_input == bit_fields_and_enums(input.register)[input.field]

\* C23: a non-reserved bit field of a validated register is generated as a
\* closed variant type (one variant per enum value, no _Reserved) iff an
\* enum with the same range exists and is complete; otherwise as the one
\* variant _Reserved, holding a bool when the field is 1 bit wide and the
\* register's unsigned integer otherwise, with one is_<name>() comparator
\* per enum value.  An enum over 1:0 with the values 0 off and 1 on is not
\* complete and gives _Reserved with is_off() and is_on().
C23_ClosedIffComplete ==
    pc = "read_code_done" =>
        /\ ~field_of_input.bit_field.status.reserved
        /\ (\A k \in 1..Len(result.variants) : is_some(result.variants[k].discriminant))
            <=> (\E k \in enums_on(input.register, field_of_input.bit_field.range) : input.register.enums[k].all_possible_values_are_defined)
        /\ (\E k \in enums_on(input.register, field_of_input.bit_field.range) : input.register.enums[k].all_possible_values_are_defined) =>
            \E k \in enums_on(input.register, field_of_input.bit_field.range) :
                /\ Len(result.variants) = Len(input.register.enums[k].values)
                /\ \A j \in 1..Len(result.variants) : result.variants[j].discriminant = Some(input.register.enums[k].values[j].value)
                /\ result.repr = Some(rust_unsigned_integer(input.register.size_in_bits))
                /\ \A j \in 1..Len(result.is_methods) : result.is_methods[j].compare.with = "variant"
        /\ ~(\E k \in enums_on(input.register, field_of_input.bit_field.range) : input.register.enums[k].all_possible_values_are_defined) =>
            /\ Len(result.variants) = 1
            /\ result.variants[1].variant = <<"_", "R", "e", "s", "e", "r", "v", "e", "d">>
            /\ result.variants[1].holds = Some(IF bit_count(field_of_input.bit_field.range) = 1 THEN "bool" ELSE rust_unsigned_integer(input.register.size_in_bits))
            /\ result.repr = None
            /\ \A k \in enums_on(input.register, field_of_input.bit_field.range) :
                /\ Len(result.is_methods) = Len(input.register.enums[k].values)
                /\ \A j \in 1..Len(result.is_methods) :
                    /\ result.is_methods[j].method = <<"i", "s", "_">> \o input.register.enums[k].values[j].name
                    /\ result.is_methods[j].compare.with = (IF bit_count(field_of_input.bit_field.range) = 1 THEN "bit" ELSE "bits")
            /\ enums_on(input.register, field_of_input.bit_field.range) = {} => result.is_methods = <<>>

\* The field 1:0 with the enum of the values 0 off and 1 on.
C23_Witness ==
    /\ pc = "read_code_done"
    /\ field_of_input.bit_field.range = BitRange_new(1, 0)
    /\ is_some(field_of_input.register_enum)
    /\ Len(unwrap(field_of_input.register_enum).values) = 2
    /\ result.variants = <<[variant |-> <<"_", "R", "e", "s", "e", "r", "v", "e", "d">>, discriminant |-> None, holds |-> Some("u8")]>>
    /\ result.is_methods[1].method = <<"i", "s", "_", "o", "f", "f">>
    /\ result.is_methods[2].method = <<"i", "s", "_", "o", "n">>

(***************************************************************************)
(* Properties of BitRange (SpecBitRange).                                  *)
(***************************************************************************)
\* C24: for every BitRange with msb >= lsb, bit_count is msb - lsb + 1;
\* max_value is 2^bit_count - 1 (the bits 0..bit_count-1 set) when
\* bit_count <= 63, the largest u64 when bit_count = 64 and an error when
\* bit_count > 64; no operation on the way overflows its type, for any msb
\* and lsb of 16 bits.  The operators bit_count and max_value used by the
\* validators give the same values.
C24_BitCountAndMaxValue ==
    /\ pc = "bit_count_done" =>
        /\ result.val = widen(input.msb - input.lsb + 1, 2)
        /\ result.val = widen(bit_count(input), 2)
        /\ ~result.overflow
        /\ ~result.panics
    /\ pc = "max_value_done" =>
        /\ ~result.overflow
        /\ input.msb - input.lsb + 1 <= 63 => result.res.ok /\ limbs_bits(result.res.val) = Bits(input.msb - input.lsb + 1)
        /\ input.msb - input.lsb + 1 = 64 => result.res.ok /\ limbs_bits(result.res.val) = Bits(64)
        /\ input.msb - input.lsb + 1 > 64 => ~result.res.ok
        /\ result.res = max_value(input)

\* max_value of the range 64:1, which is 64 bits wide.
C24_Witness ==
    /\ pc = "max_value_done"
    /\ input = BitRange_new(64, 1)
    /\ result.res = Ok(u64_max_value)
    /\ ~result.overflow

\* The context stacks an entity validator is entered with: the empty one
\* and one that holds a breadcrumb of an enclosing entity.
EntryStacks == {<<>>, <<<<"o", "u", "t", "e", "r">>>>}

entered_with(stack) == [context_stack |-> stack, errors |-> <<>>]

entity_validator(tbl, rd, data) ==
    CASE entity = "description" -> check_register_description(tbl, data)
      [] entity = "register" -> validate_register_table(tbl, rd, data)
      [] entity = "function" -> validate_function_table(tbl, data)
      [] entity = "enum" -> validate_enum_table(tbl, data)
      [] entity = "enum_value" -> validate_enum_value_table(tbl, data)

breadcrumb_count(context) == Cardinality({k \in 1..Len(context) : context[k] = "\n\t--> "})

\* The breadcrumbs of the enums of a register table, below the register's.
enum_contexts(tbl) == IF ENUMS_KEY \in DOMAIN tbl /\ tbl[ENUMS_KEY].kind = "Array" THEN {enum_context(tbl[ENUMS_KEY].a[k].t, register_context(tbl)) : k \in {j \in 1..Len(tbl[ENUMS_KEY].a) : tbl[ENUMS_KEY].a[j].kind = "Table" /\ NAME_KEY \in DOMAIN tbl[ENUMS_KEY].a[j].t}} ELSE {}

\* C25: each entity validator (validate_register_table,
\* validate_function_table, validate_enum_table, validate_enum_value_table,
\* check_register_description) returns with the context stack it was
\* entered with, on success and on every failure, whatever the stack held;
\* the stack is empty when check_root_table finishes; and a diagnostic of a
\* nested entity begins with the breadcrumbs of its enclosing entities,
\* outermost first.
C25_ContextStackRestored ==
    /\ validated =>
        /\ result.data.context_stack = <<>>
        /\ \A stack \in EntryStacks : \A r \in {entity_validator(input.tbl, input.rd, entered_with(stack))} :
            /\ r.data.context_stack = stack
            /\ r.res.ok = result.res.ok
            /\ \A n \in 1..Len(r.data.errors) : IsPrefix(context_stack_join(stack), r.data.errors[n].context)
    /\ pc = "root_done" => result.data.context_stack = <<>>
    /\ pc = "register_done" =>
        \A n \in 1..Len(result.data.errors) :
            /\ result.data.errors[n].table \in {"Function", "Enum", "EnumValue"} => IsPrefix(context_stack_join(register_context(input.tbl)), result.data.errors[n].context)
            /\ result.data.errors[n].table = "EnumValue" => \E context \in enum_contexts(input.tbl) : IsPrefix(context_stack_join(context), result.data.errors[n].context)

\* A register whose enum holds an enum value without `value`: the
\* diagnostic carries three breadcrumbs, and the stack is empty again.
C25_Witness ==
    /\ pc = "register_done"
    /\ result.data.context_stack = <<>>
    /\ \E n \in 1..Len(result.data.errors) :
        /\ result.data.errors[n].table = "EnumValue"
        /\ result.data.errors[n].type = "MissingKey"
        /\ result.data.errors[n].key = VALUE_KEY
        /\ breadcrumb_count(result.data.errors[n].context) = 3
        /\ IsPrefix(context_stack_join(register_context(input.tbl)), result.data.errors[n].context)


RECURSIVE fragments_text(_)
fragments_text(fragments) == IF fragments = <<>> THEN <<>> ELSE Head(fragments) \o fragments_text(Tail(fragments))

\* C26: after any sequence of save attempts the raw text of the editor is
\* the text it was opened with followed by the fragments of the saves that
\* returned Ok, in order; the raw text passes validation at every point;
\* and a save that failed (TOML parsing, check_root_table, or the write)
\* changed neither the file nor the raw text.
C26_FailedSaveChangesNothing ==
    /\ input.register_file_raw = parsed_file \o fragments_text(registers)
    /\ is_valid_document(input.register_file_raw)
    /\ (pc = "save_register" /\ ~result.r.ok) => (input.file = result.data.file /\ input.register_file_raw = result.data.register_file_raw)

\* The part of C26 about the raw text alone.
RawTextIsValidatedPrefixPlusSaves ==
    /\ input.register_file_raw = parsed_file \o fragments_text(registers)
    /\ is_valid_document(input.register_file_raw)
    /\ (pc = "save_register" /\ ~result.r.ok) => input.register_file_raw = result.data.register_file_raw

SomeSaveSucceeded == pc = "save_register" /\ result.r.ok /\ Len(registers) = 2


\* What `Fill reserved` started from and what it left.
fields_before == result.data.register.functions

fields_after == input.register.functions

fill_size == result.data.register.size

range_of(f) == BitRange_try_from(trim(f.bit))

all_parse(fs) == \A k \in 1..Len(fs) : range_of(fs[k]).ok

\* Valid ranges in strictly descending, non-overlapping order inside the
\* register size.
descending_inside(fs, size) ==
    /\ all_parse(fs)
    /\ \A k \in 1..Len(fs) : range_of(fs[k]).val.msb >= range_of(fs[k]).val.lsb /\ range_of(fs[k]).val.msb <= size - 1
    /\ \A k \in 1..(Len(fs) - 1) : range_of(fs[k]).val.lsb > range_of(fs[k + 1]).val.msb

covers_every_bit_once(fs, size) ==
    /\ all_parse(fs)
    /\ \A k \in 1..Len(fs) : range_of(fs[k]).val.msb <= size - 1
    /\ \A b \in 0..(size - 1) : Cardinality({k \in 1..Len(fs) : range_of(fs[k]).val.lsb <= b /\ b <= range_of(fs[k]).val.msb}) = 1

is_added_reserved(f) == f.reserved /\ f.name = <<>> /\ f.description = <<>>

\* `after` is `before` with reserved fields added.
RECURSIVE adds_only_reserved(_, _)
adds_only_reserved(after, before) ==
    IF after = <<>> THEN before = <<>>
    ELSE IF before # <<>> /\ Head(after) = Head(before) THEN adds_only_reserved(Tail(after), Tail(before))
    ELSE is_added_reserved(Head(after)) /\ adds_only_reserved(Tail(after), before)

filled_list_is_complete ==
    descending_inside(fields_before, fill_size) =>
        /\ covers_every_bit_once(fields_after, fill_size)
        /\ adds_only_reserved(fields_after, fields_before)
        /\ fields_before = <<>> => fields_after = <<UiFunction_new_reserved(BitRange_fmt(BitRange_new(fill_size - 1, 0)))>>
        /\ fill_empty_register_fields_as_reserved(input.register) = fields_after

after_fill == pc \in {"fill_done", "fill_reserved"}

loop_parses_bad_field(fs, size) ==
    \E k \in 1..Len(fs) :
        /\ ~range_of(fs[k]).ok
        /\ descending_inside(SubSeq(fs, 1, k - 1), size)
        /\ \A j \in 1..(k - 1) : range_of(fs[j]).val.lsb # 0

has_valid_fields(register) ==
    /\ trim(register.name) # <<>>
    /\ is_basic_string(quoted(trim(register.name)))
    /\ is_decimal(trim(register.location))
    /\ covers_every_bit_once(register.functions, register.size)
    /\ \A k \in 1..Len(register.functions) : register.functions[k].reserved \/ trim(register.functions[k].name) # <<>>

fragment_keys(fragment) == {fragment[k].key : k \in {j \in 1..Len(fragment) : fragment[j].line = "pair"}}

\* validate_register_table on the first register of a parsed fragment.
fragment_register(root, rd) == validate_register_table(root[REGISTER_KEY].a[1].t, rd, ParserContextAndErrors_default)

\* C29: for every editor register whose fields are individually valid and
\* whose bit fields partition the register, the fragment convert_to_toml
\* produces is accepted by validate_register_table and the validated
\* register has the size and the access mode selected in the editor; the
\* keys `size` and `access` are written exactly when the description has
\* no such default or the default differs from the selection.
C29_FragmentIsAccepted ==
    LET accepted(register, rd, fragment, root) ==
            /\ root.ok
            /\ fragment_register(root.val, rd).res.ok
            /\ fragment_register(root.val, rd).res.val.size_in_bits = register.size
            /\ fragment_register(root.val, rd).res.val.access_mode = register.access
            /\ SIZE_IN_BITS_KEY \in fragment_keys(SubSeq(fragment, 1, 6)) <=> rd.default_register_size_in_bits # Some(register.size)
            /\ ACCESS_KEY \in fragment_keys(SubSeq(fragment, 1, 6)) <=> rd.default_register_access # Some(register.access)
    IN  (pc = "save_register" /\ has_valid_fields(result.data.register)) =>
            accepted(result.data.register, result.data.register_file.description, result.new_toml, toml_from_str(result.new_toml))

\* The fragments without a `size` key are accepted.
FragmentWithoutSizeIsAccepted ==
    LET accepted(register, rd, fragment, root) ==
            /\ root.ok
            /\ fragment_register(root.val, rd).res.ok
            /\ fragment_register(root.val, rd).res.val.size_in_bits = register.size
            /\ fragment_register(root.val, rd).res.val.access_mode = register.access
            /\ ACCESS_KEY \in fragment_keys(SubSeq(fragment, 1, 6)) <=> rd.default_register_access # Some(register.access)
    IN  (pc = "save_register" /\ has_valid_fields(result.data.register) /\ result.data.register_file.description.default_register_size_in_bits = Some(result.data.register.size)) =>
            accepted(result.data.register, result.data.register_file.description, result.new_toml, toml_from_str(result.new_toml))


\* The table's only location key is `index`, with a non-negative integer.
located_by_index == present_locations = {INDEX_KEY} /\ input.tbl[INDEX_KEY].kind = "Integer" /\ input.tbl[INDEX_KEY].i >= 0

\* C30: validate_register_table reads the key `index` twice, as the index
\* location and as the 16-bit ordinal.  A register whose only location key
\* is `index = n` gets location Index(n) and ordinal Some(n) when
\* 0 <= n <= 65535 and is rejected with a value error on key `index` when
\* n > 65535; a register located by an address key has ordinal None: the
\* ordinal of a register is Some(n) exactly when its location is Index(n).
C30_OrdinalFollowsLocation ==
    pc = "register_done" =>
        /\ (valid_but_for_location /\ located_by_index) =>
               IF input.tbl[INDEX_KEY].i <= U16Max
               THEN has_location(INDEX_KEY) /\ result.res.val.index = Some(input.tbl[INDEX_KEY].i)
               ELSE one_value_error(INDEX_KEY) /\ result.data.errors[Len(result.data.errors)].error.id = "larger value than u16::max_value"
        /\ result.res.ok =>
               /\ result.res.val.location.kind \in {"Absolute", "Relative"} => result.res.val.index = None
               /\ result.res.val.location.kind = "Index" => result.res.val.index = Some(result.res.val.location.n)
               /\ result.res.val.location.kind = "Index" => result.res.val.location.n <= U16Max

\* An index one above the largest ordinal.
C30_Witness ==
    /\ pc = "register_done"
    /\ valid_but_for_location
    /\ located_by_index
    /\ input.tbl[INDEX_KEY].i = U16Max + 1
    /\ one_value_error(INDEX_KEY)


\* The bits of the reserved bit fields and of the non-reserved ones.
reserved_bits(r) == UNION {r.functions[k].range.lsb .. r.functions[k].range.msb : k \in {j \in 1..Len(r.functions) : r.functions[j].status.reserved}}

called_bits(r, called) == UNION {bit_fields_and_enums(r)[n].bit_field.range.lsb .. bit_fields_and_enums(r)[n].bit_field.range.msb : n \in called}

differing_bits(a, b) == (a \ b) \cup (b \ a)

\* C27: for a ReadWrite register of a validated model the value `modify`
\* writes back differs from the value it read only in bits of non-reserved
\* bit fields, whatever sequence of field proxies the closure calls: every
\* bit of every reserved bit field is written back unchanged, no proxy is
\* generated for a reserved field, and each call changes bits of its own
\* field only.
C27_ModifyKeepsReservedBits ==
    /\ pc \in {"closure", "modify_done"} =>
        /\ differing_bits(result.w, result.r) \cap reserved_bits(input.register) = {}
        /\ differing_bits(result.w, result.r) \subseteq called_bits(input.register, result.called)
        /\ \A n \in 1..Len(bit_fields_and_enums(input.register)) : ~bit_fields_and_enums(input.register)[n].bit_field.status.reserved
    /\ pc = "modify_done" => input.raw_bits = result.w

\* modify wrote a value that differs from the one it read, after calls on
\* two fields of a register with a reserved field, one of them a set
\* method of an enum that is not complete.
C27_Witness ==
    /\ pc = "modify_done"
    /\ reserved_bits(input.register) # {}
    /\ array_pos = MaxCalls + 1
    /\ Cardinality(result.called) = 2
    /\ input.raw_bits # result.r
    /\ \E n \in 1..Len(bit_fields_and_enums(input.register)) : is_some(bit_fields_and_enums(input.register)[n].register_enum) /\ enum_type(bit_fields_and_enums(input.register)[n]) # "Complete"

====
